---- MODULE Spec2Model ----
(***************************************************************************)
(* Event binding and delegation subsystem of ddom.js.                      *)
(*                                                                         *)
(* src/ddom.js holds two variants of the library: version 0.2 (lines       *)
(* 33-1618, store eventCache: WeakMap element -> Array of handles) and     *)
(* version 0.3 (lines 1667-3242, store handlerCache: WeakMap element ->    *)
(* Set of handles).  Both are modelled side by side: every action applies  *)
(* the same API call to a 0.2 world and to a 0.3 world.                    *)
(*                                                                         *)
(* The browser is modelled as far as the library uses it: a fixed tree of  *)
(* elements, the per-element event listener list (addEventListener,       *)
(* removeEventListener) and the DOM event dispatch algorithm (capture      *)
(* pass, target, bubble pass, once-listeners, removed listeners,           *)
(* stopPropagation, preventDefault on cancelable events).                  *)
(***************************************************************************)
EXTENDS Naturals, Sequences, FiniteSets, TLC

(***************************************************************************)
(* Bounds                                                                  *)
(***************************************************************************)
\* most handles alive at once in the store of one variant
MaxHandles == 2

(***************************************************************************)
(* JavaScript values                                                       *)
(***************************************************************************)
undefined == "undefined"
null == 0

\* ToBoolean of the values a capture / once argument takes here
ToBoolean(v) == v = "true"

\* the boolean value b as a JavaScript value
JSBool(b) == IF b THEN "true" ELSE "false"

(***************************************************************************)
(* The document: a fixed tree of elements.                                 *)
(*        1                                                                *)
(*       / \                                                               *)
(*      2   5                                                              *)
(*      |                                                                  *)
(*      3                                                                  *)
(*      |                                                                  *)
(*      4                                                                  *)
(* Parent[n] is n.parentNode, null (0) above the top element.              *)
(***************************************************************************)
Parent == <<0, 1, 2, 3, 1>>
Nodes == DOMAIN Parent

\* every node of the tree is an Element: nodeType 1, and it has matches()
nodeType(n) == 1
hasMatches(n) == TRUE

\* Element.prototype.matches(selector) on the fixed tree
matches(n, selector) ==
    CASE selector = ".item" -> n \in {1, 3, 4}
      [] selector = ".box"  -> n \in {1, 2, 3}
      [] selector = ".root" -> n \in {1, 2}
      [] selector = ".top"  -> n \in {1}
      [] OTHER              -> FALSE

\* n, n.parentNode, ... up to the top element
RECURSIVE PathUp(_)
PathUp(n) == IF n = null THEN <<>> ELSE <<n>> \o PathUp(Parent[n])

Reverse(s) == [i \in 1..Len(s) |-> s[Len(s) + 1 - i]]

\* a variant of closestFrom without the test for until: the walk goes on
\* to the top element
RECURSIVE closestFromToTop(_, _, _)
closestFromToTop(element, tag, until) ==
    IF element = null THEN null
    ELSE IF nodeType(element) = 1 /\ matches(element, tag) THEN element
    ELSE closestFromToTop(Parent[element], tag, until)

\* DDom.prototype.closest(tag, until) started at element; the result null
\* stands for the empty DDom it returns when nothing matches, until = null
\* for a call without until
RECURSIVE closestFrom(_, _, _)
closestFrom(element, tag, until) ==
    IF element = null THEN null
    ELSE IF nodeType(element) = 1 /\ matches(element, tag) THEN element
    ELSE IF until # null /\ until = element THEN null
    ELSE closestFrom(Parent[element], tag, until)

(***************************************************************************)
(* The store: a WeakMap, modelled as a function whose domain is the set of *)
(* elements that have an entry.                                            *)
(***************************************************************************)
EmptyMap == [n \in {} |-> <<>>]
MapHas(m, k) == k \in DOMAIN m
MapSet(m, k, v) == [n \in (DOMAIN m) \cup {k} |-> IF n = k THEN v ELSE m[n]]
MapDelete(m, k) == [n \in (DOMAIN m) \ {k} |-> m[n]]

(***************************************************************************)
(* The platform: each element's event listener list.  A listener is        *)
(* [type, callback, capture, once]; callback is a function value, here the *)
(* closure record of a dispatch wrapper.  Two function values are the same *)
(* function exactly if their records are equal: the id of a closure tells  *)
(* it from the other closures of the same code over the same values.       *)
(***************************************************************************)
NoListeners == [n \in Nodes |-> <<>>]

SameListener(l, type, f, capture) ==
    l.type = type /\ l.callback = f /\ l.capture = capture

\* element.addEventListener(type, f, capture/options): a listener with the
\* same type, callback and capture is not added twice
addEventListener(lst, element, type, f, capture, once) ==
    IF \E i \in 1..Len(lst[element]) : SameListener(lst[element][i], type, f, capture)
    THEN lst
    ELSE [lst EXCEPT ![element] =
            Append(@, [type |-> type, callback |-> f, capture |-> capture, once |-> once])]

\* element.removeEventListener(type, f, capture): removes the listener with
\* that type, callback and capture flag, if there is one
removeEventListener(lst, element, type, f, capture) ==
    [lst EXCEPT ![element] =
        SelectSeq(@, LAMBDA l : ~SameListener(l, type, f, capture))]

\* the function value a stored handle holds: f in 0.2, binder in 0.3
HandleFn(h) == IF "f" \in DOMAIN h THEN h.f ELSE h.binder

\* the value of a closure's handle when the code of the closure reads no
\* variable handle
NoHandle == [element |-> null, id |-> 0]

\* the function values alive in a world: those of stored handles and of
\* registered listeners
LiveFns(w) ==
    UNION { { HandleFn(w.cache[n][i]) : i \in 1..Len(w.cache[n]) } : n \in DOMAIN w.cache }
    \cup UNION { { w.lst[n][i].callback : i \in 1..Len(w.lst[n]) } : n \in Nodes }

\* a variant of NewFn in which bind returns the same function value for the
\* same code and the same bound values
NewFnShared(w, f) == [f EXCEPT !.id = 1]

\* a new function value: the closure f with the first id that no live
\* closure of the same code over the same values has (the ids of dead
\* function values are reused, so that the model stays finite)
NewFn(w, f) ==
    LET same == { g \in LiveFns(w) : [g EXCEPT !.id = 0, !.handle = NoHandle] = [f EXCEPT !.id = 0, !.handle = NoHandle] }
        id == CHOOSE i \in 1..(Cardinality(same) + 1) : \A g \in same : g.id # i
    IN [f EXCEPT !.id = id]

\* number of handles in a store
RECURSIVE SumLen(_, _)
SumLen(cache, ns) ==
    IF ns = {} THEN 0
    ELSE LET n == CHOOSE x \in ns : TRUE
         IN Len(cache[n]) + SumLen(cache, ns \ {n})

HandleCount(cache) == SumLen(cache, DOMAIN cache)

(***************************************************************************)
(* Callbacks.  A user callback is known by its identity; what it does when *)
(* it is invoked is an input of the dispatch: beh[cb] is "undefined",      *)
(* "zero", "true" (it returns that value), "false" (it returns the boolean *)
(* false) or "throw" (it throws an Error).                                 *)
(*                                                                         *)
(* A run is the record of one execution of a dispatch wrapper:             *)
(*   f, el         the wrapper and the element it is registered on         *)
(*   cb, n, out    the callback, how often it was invoked, its outcome     *)
(*   this          the this-context of the invocation                      *)
(*   arg           the kind of second argument: "DDom" (a wrapped element) *)
(*                 or "elements" (an elements-context object)              *)
(*   target, delegateTarget, currentTarget                                 *)
(*                 the elements these wrap (null: property absent); for    *)
(*                 arg = "DDom", target is the wrapped element             *)
(*   pd, sp        the wrapper called preventDefault / stopPropagation     *)
(*   logs          number of consoleError calls                            *)
(*   threw         an exception left the wrapper                           *)
(***************************************************************************)
NoRun(f) ==
    [f |-> f, el |-> f.element, cb |-> f.callback, n |-> 0, out |-> "none",
     this |-> null, arg |-> "none", target |-> null, delegateTarget |-> null,
     currentTarget |-> null, pd |-> FALSE, sp |-> FALSE, logs |-> 0, threw |-> FALSE]

\* callback.call(this, event, arg): the callback is invoked once
CallRun(f, this, arg, target, delegateTarget, currentTarget, out) ==
    [NoRun(f) EXCEPT !.n = 1, !.out = out, !.this = this, !.arg = arg,
                     !.target = target, !.delegateTarget = delegateTarget,
                     !.currentTarget = currentTarget]

\* event.preventDefault(); event.stopPropagation();
Cancel(run) == [run EXCEPT !.pd = TRUE, !.sp = TRUE]

\* a variant of TryCall that cancels on every falsy return value (a test
\* "== false" or "!result" in place of "=== false")
TryCallFalsy(run, nlogs) ==
    CASE run.out \in {"false", "zero", "undefined"} -> Cancel(run)
      [] run.out = "throw" -> Cancel([run EXCEPT !.logs = nlogs])
      [] OTHER             -> run

\* try { if (callback.call(...) === false) { cancel } }
\* catch (e) { consoleError (nlogs times); cancel }
TryCall(run, nlogs) ==
    CASE run.out = "false" -> Cancel(run)
      [] run.out = "throw" -> Cancel([run EXCEPT !.logs = nlogs])
      [] OTHER             -> run

\* the effect of a finished wrapper run on the dispatch state: the run is
\* recorded and the event's flags are set (preventDefault sets the canceled
\* flag of a cancelable event only)
Ran(d, run, event) ==
    [d EXCEPT !.runs = Append(@, run),
              !.stop = @ \/ run.sp,
              !.canceled = @ \/ (run.pd /\ event.cancelable)]

(***************************************************************************)
(* Version 0.2: the dispatch wrappers                                      *)
(***************************************************************************)
\* eventBind's eventHandler.bind(element, type, callback)
eventBindHandler02(d, f, event, out) ==
    LET run == CallRun(f, f.element, "DDom", event.target, null, null, out)
    IN IF out = "throw" /\ event.custom /\ event.detail = "null"
       THEN \* event.detail[0] of a null detail throws inside the catch block
            Ran(d, [run EXCEPT !.threw = TRUE], event)
       ELSE Ran(d, TryCall(run, 1), event)

\* eventClick's eventHandler.bind(element, callback)
eventClickHandler02(d, f, event, out) ==
    Ran(d, TryCall(CallRun(f, f.element, "DDom", event.target, null, null, out), 1), event)

\* eventOnce's eventHandler.bind(element, callback); handle is the variable
\* of the enclosing eventOnce call, which holds the handle built last
eventOnceHandler02(d, f, event, out) ==
    LET d1 == Ran(d, TryCall(CallRun(f, f.element, "DDom", event.target, null, null, out), 1), event)
        \* handle.f: the function value eventOnce built for f.handle.element
        handleF == [f EXCEPT !.element = f.handle.element, !.id = f.handle.id]
    IN [d1 EXCEPT !.lst = removeEventListener(@, f.element, f.type, handleF, FALSE)]

\* onEventHandler.bind(this, this[0], hasElements, data, callback)
onEventHandler02(d, f, event, out) ==
    LET clicked == event.target
        delegateTarget == f.element
    IN IF f.hasElements
       THEN IF hasMatches(clicked) /\ matches(clicked, f.data)
            THEN Ran(d, TryCall(CallRun(f, clicked, "elements", event.target,
                                        delegateTarget, event.target, out), 1), event)
            ELSE LET currentTarget == closestFrom(clicked, f.data, delegateTarget)
                 IN IF currentTarget # null
                    THEN Ran(d, TryCall(CallRun(f, event.target, "elements", clicked,
                                                delegateTarget, currentTarget, out), 1), event)
                    ELSE Ran(d, NoRun(f), event)
       ELSE Ran(d, TryCall(CallRun(f, event.target, "elements", event.target,
                                   delegateTarget, event.target, out), 1), event)

(***************************************************************************)
(* Version 0.3: the dispatch wrappers                                      *)
(***************************************************************************)
\* the handles the cleanup loop of createEventBind removes
OnceOf(handlers, callback) ==
    SelectSeq(handlers, LAMBDA h : h.callback = callback /\ h.once)

\* element.removeEventListener(handler.event, handler.binder, handler.capture)
\* for each handle of hs in turn
RECURSIVE removeAll(_, _, _)
removeAll(lst, element, hs) ==
    IF hs = <<>> THEN lst
    ELSE removeAll(removeEventListener(lst, element, Head(hs).event,
                                       HandleFn(Head(hs)), ToBoolean(Head(hs).capture)),
                   element, Tail(hs))

\* a variant of createEventBind whose cleanup loop, in place of deleting a
\* one-shot handle, deregisters it and sets its once flag to false
createEventBindClearsOnce(d, f, event, out) ==
    LET element == f.element
        run == TryCall(CallRun(f, element, "DDom", event.target, null, null, out), 1)
    IN IF ~MapHas(d.cache, element)
       THEN Ran(d, [run EXCEPT !.threw = TRUE], event)
       ELSE LET handlers == d.cache[element]
                gone == OnceOf(handlers, f.callback)
                d1 == Ran(d, run, event)
            IN [d1 EXCEPT !.lst = removeAll(@, element, gone),
                          !.cache = MapSet(@, element,
                                [i \in 1..Len(handlers) |->
                                    IF handlers[i].callback = f.callback /\ handlers[i].once
                                    THEN [handlers[i] EXCEPT !.once = FALSE]
                                    ELSE handlers[i]])]

\* a variant of createEventBind without the cleanup loop: the one-shot
\* record stays in the store
createEventBindKeepsRecord(d, f, event, out) ==
    Ran(d, TryCall(CallRun(f, f.element, "DDom", event.target, null, null, out), 1), event)

\* createEventBind.bind(null, element, type, callback)
createEventBind(d, f, event, out) ==
    LET element == f.element
        run == TryCall(CallRun(f, element, "DDom", event.target, null, null, out), 1)
    IN IF ~MapHas(d.cache, element)
       THEN \* handlers is undefined: for (... of undefined) throws a TypeError
            Ran(d, [run EXCEPT !.threw = TRUE], event)
       ELSE LET handlers == d.cache[element]
                gone == OnceOf(handlers, f.callback)
                keep == SelectSeq(handlers, LAMBDA h : ~(h.callback = f.callback /\ h.once))
                d1 == Ran(d, run, event)
            IN [d1 EXCEPT !.lst = removeAll(@, element, gone),
                          !.cache = IF gone = <<>> THEN @
                                    ELSE IF keep = <<>> THEN MapDelete(@, element)
                                    ELSE MapSet(@, element, keep)]

\* a variant of createOnBinding that calls the callback on the delegation
\* root whatever matched
createOnBindingOnRoot(d, f, event, out) ==
    Ran(d, TryCall(CallRun(f, f.element, "elements", event.target, f.element, null, out), 2),
        event)

\* createOnBinding.bind(null, this, this[0], hasElements, data, callback)
createOnBinding(d, f, event, out) ==
    LET clicked == event.target
        delegateTarget == f.element
    IN IF f.hasElements
       THEN IF hasMatches(clicked) /\ matches(clicked, f.data)
            THEN Ran(d, TryCall(CallRun(f, clicked, "elements", event.target,
                                        delegateTarget, null, out), 2), event)
            ELSE LET target == closestFrom(event.target, f.data, delegateTarget)
                 IN IF target # null
                    THEN Ran(d, TryCall(CallRun(f, target, "elements", target,
                                                delegateTarget, null, out), 2), event)
                    ELSE Ran(d, NoRun(f), event)
       ELSE Ran(d, TryCall(CallRun(f, event.target, "elements", event.target,
                                   delegateTarget, null, out), 2), event)

\* the call of a registered function value whose callback does out
CallWrapper(d, f, event, out) ==
    CASE f.fn = "eventBind"       -> eventBindHandler02(d, f, event, out)
      [] f.fn = "eventClick"      -> eventClickHandler02(d, f, event, out)
      [] f.fn = "eventOnce"       -> eventOnceHandler02(d, f, event, out)
      [] f.fn = "onEventHandler"  -> onEventHandler02(d, f, event, out)
      [] f.fn = "createEventBind" -> createEventBind(d, f, event, out)
      [] f.fn = "createOnBinding" -> createOnBinding(d, f, event, out)

\* Callbacks that call the library while they run, and then return
\* undefined: "off" calls off() on the element of its binding, "trigger"
\* triggers the event of its binding on the element of its binding.  The
\* callbacks that a nested dispatch invokes return undefined (one level of
\* nesting).
ReentrantOutcomes == {"off", "trigger"}

RECURSIVE offElement02(_, _, _, _)
RECURSIVE offElement03(_, _, _, _)
RECURSIVE dispatchEvent(_, _, _)

\* what the callback of the wrapper f does to the stores, the listener
\* lists and the recorded runs while it runs
CallbackEffect(d, f, out, beh) ==
    CASE out = "off" ->
            LET w == [cache |-> d.cache, lst |-> d.lst]
                r == IF f.fn \in {"createEventBind", "createOnBinding"}
                     THEN offElement03(w, f.element, undefined, undefined)
                     ELSE offElement02(w, f.element, undefined, undefined)
            IN [d EXCEPT !.cache = r.cache, !.lst = r.lst]
      [] out = "trigger" ->
            LET eventObject == [type |-> f.type, custom |-> TRUE, bubbles |-> TRUE,
                                cancelable |-> FALSE, detail |-> "null",
                                target |-> f.element]
                nested == dispatchEvent([d EXCEPT !.stop = FALSE, !.canceled = FALSE],
                                        eventObject, [c \in DOMAIN beh |-> "undefined"])
            IN [nested EXCEPT !.stop = d.stop, !.canceled = d.canceled]
      [] OTHER -> d

\* the call of a registered function value: the wrapper runs, and what its
\* callback does to the library has happened when the callback returns
CallListener(d, f, event, beh) ==
    LET out == beh[f.callback]
    IN IF out \notin ReentrantOutcomes
       THEN CallWrapper(d, f, event, out)
       ELSE LET probe == CallWrapper(d, f, event, "undefined")
                invoked == probe.runs[Len(probe.runs)].n = 1
            IN CallWrapper(IF invoked THEN CallbackEffect(d, f, out, beh) ELSE d,
                           f, event, out)

(***************************************************************************)
(* The platform's event dispatch (DOM standard, "dispatch" and "inner      *)
(* invoke").  The listeners of a node are taken from a copy of its list; a *)
(* listener removed meanwhile is skipped; a once-listener is removed       *)
(* before it is called; an exception of a listener is reported and the     *)
(* dispatch goes on.                                                       *)
(***************************************************************************)
StillListed(lst, node, l) ==
    \E i \in 1..Len(lst[node]) : lst[node][i] = l

\* a variant of the inner invoke in which a stopped event reaches no
\* further listener of the same node (what stopImmediatePropagation in
\* place of stopPropagation would do)
RECURSIVE InnerInvokeImmediate(_, _, _, _, _, _)
InnerInvokeImmediate(d, clone, node, capturing, event, beh) ==
    IF clone = <<>> \/ d.stop THEN d
    ELSE LET l == Head(clone)
             eligible == /\ l.type = event.type
                         /\ l.capture = capturing
                         /\ StillListed(d.lst, node, l)
             d1 == IF l.once
                   THEN [d EXCEPT !.lst = removeEventListener(@, node, l.type, l.callback, l.capture)]
                   ELSE d
         IN InnerInvokeImmediate(IF eligible THEN CallListener(d1, l.callback, event, beh) ELSE d,
                                 Tail(clone), node, capturing, event, beh)

RECURSIVE InnerInvoke(_, _, _, _, _, _)
InnerInvoke(d, clone, node, capturing, event, beh) ==
    IF clone = <<>> THEN d
    ELSE LET l == Head(clone)
             eligible == /\ l.type = event.type
                         /\ l.capture = capturing
                         /\ StillListed(d.lst, node, l)
             d1 == IF l.once
                   THEN [d EXCEPT !.lst = removeEventListener(@, node, l.type, l.callback, l.capture)]
                   ELSE d
         IN InnerInvoke(IF eligible THEN CallListener(d1, l.callback, event, beh) ELSE d,
                        Tail(clone), node, capturing, event, beh)

\* one step of the event path: nothing runs once the stop propagation flag
\* is set
Invoke(d, node, capturing, event, beh) ==
    IF d.stop THEN d ELSE InnerInvoke(d, d.lst[node], node, capturing, event, beh)

\* the steps of the event path: the capture pass from the top down to the
\* target, then the target's non-capture listeners, then, for an event that
\* bubbles, the ancestors from the parent upwards
EventPath(event) ==
    LET up == PathUp(event.target)
    IN [i \in 1..Len(up) |-> [node |-> Reverse(up)[i], capturing |-> TRUE]]
       \o <<[node |-> event.target, capturing |-> FALSE]>>
       \o (IF event.bubbles
           THEN [i \in 1..(Len(up) - 1) |-> [node |-> up[i + 1], capturing |-> FALSE]]
           ELSE <<>>)

RECURSIVE WalkPath(_, _, _, _)
WalkPath(d, steps, event, beh) ==
    IF steps = <<>> THEN d
    ELSE WalkPath(Invoke(d, Head(steps).node, Head(steps).capturing, event, beh),
                  Tail(steps), event, beh)

\* element.dispatchEvent(event): the stop propagation flag is unset when the
\* dispatch ends, the canceled flag stays
dispatchEvent(d, event, beh) ==
    [WalkPath(d, EventPath(event), event, beh) EXCEPT !.stop = FALSE]

(***************************************************************************)
(* API calls.  A world is [cache, lst]: the store and the listener lists.  *)
(* A call on the collection X (a sequence of elements) returns the new     *)
(* world with what the call did: ret ("this", "null", or undefined),       *)
(* logs (consoleError calls of the call itself), threw (an exception left  *)
(* the call), runs (the wrapper runs of a trigger), canceled (the event's  *)
(* canceled flag after a trigger).                                         *)
(***************************************************************************)
Callbacks == {"cb1", "cb2"}

\* typeof v === "function"
IsFunction(v) == v \in Callbacks

Done(cache, lst, ret) ==
    [cache |-> cache, lst |-> lst, ret |-> ret, logs |-> 0, threw |-> FALSE,
     runs |-> <<>>, canceled |-> FALSE]

\* a function value: the closure of the dispatch wrapper fn over the
\* values it was bound to; handle is what the variable handle of the 0.2
\* eventOnce refers to (NoHandle for the other wrappers)
Closure(fn, element, type, callback, hasElements, data, handle) ==
    [id |-> 0, fn |-> fn, element |-> element, type |-> type, callback |-> callback,
     hasElements |-> hasElements, data |-> data, handle |-> handle]

\* events.split(" "), the string events given as its sequence of tokens
\* (event names, " " and "\t"); piece is the piece read so far
RECURSIVE SplitFrom(_, _)
SplitFrom(tokens, piece) ==
    IF tokens = <<>> THEN <<piece>>
    ELSE IF Head(tokens) = " " THEN <<piece>> \o SplitFrom(Tail(tokens), "")
    ELSE SplitFrom(Tail(tokens), piece \o Head(tokens))

split(events) == SplitFrom(events, "")

(***************************************************************************)
(* Version 0.2                                                             *)
(***************************************************************************)
\* eventBindCache(element, handle)
eventBindCache(w, element, handle) ==
    [cache |-> IF MapHas(w.cache, element)
               THEN MapSet(w.cache, element, Append(w.cache[element], handle))
               ELSE MapSet(w.cache, element, <<handle>>),
     lst |-> addEventListener(w.lst, element, handle.event, handle.f,
                              ToBoolean(handle.capture), FALSE)]

\* the loop of eventBind / eventClick / eventOnce over items; last is what
\* handle.f refers to once the loop has ended (eventOnce only)
RECURSIVE BindLoop02(_, _, _, _, _, _, _)
BindLoop02(w, items, fn, type, callback, useCapture, last) ==
    IF items = <<>> THEN w
    ELSE LET element == Head(items)
             handle == [event |-> type,
                        capture |-> JSBool(ToBoolean(useCapture)),
                        callback |-> callback,
                        f |-> NewFn(w, Closure(fn, element, type, callback,
                                               FALSE, undefined, last))]
         IN BindLoop02(eventBindCache(w, element, handle), Tail(items),
                       fn, type, callback, useCapture, last)

eventBind02(w, X, type, callback, useCapture) ==
    LET w1 == BindLoop02(w, X, "eventBind", type, callback, useCapture, NoHandle)
    IN Done(w1.cache, w1.lst, "this")

eventClick02(w, X, callback, useCapture) ==
    LET w1 == BindLoop02(w, X, "eventClick", "click", callback, useCapture, NoHandle)
    IN Done(w1.cache, w1.lst, "this")

\* var handle is one variable of the call: every eventHandler of the call
\* reads the handle that the last turn of the loop assigned
eventOnce02(w, X, type, callback, useCapture) ==
    LET lastElement == X[Len(X)]
        lastF == NewFn(w, Closure("eventOnce", lastElement, type, callback,
                                  FALSE, undefined, NoHandle))
        last == IF X = <<>> THEN NoHandle
                ELSE [element |-> lastElement, id |-> lastF.id]
        w1 == BindLoop02(w, X, "eventOnce", type, callback, useCapture, last)
    IN Done(w1.cache, w1.lst, "this")

\* the loop of on over the event names
RECURSIVE OnLoop02(_, _, _, _, _, _, _)
OnLoop02(w, element, events, hasElements, data, callback, useCapture) ==
    IF events = <<>> THEN w
    ELSE LET handle == [event |-> Head(events),
                        capture |-> JSBool(Head(events) = "blur" \/ Head(events) = "focus"
                                           \/ ToBoolean(useCapture)),
                        callback |-> callback,
                        f |-> NewFn(w, Closure("onEventHandler", element, Head(events),
                                               callback, hasElements, data, NoHandle))]
         IN OnLoop02(eventBindCache(w, element, handle), element, Tail(events),
                     hasElements, data, callback, useCapture)

\* consoleError(`... ${this.on.caller.toString()}`); return null;
\* on.caller is null when on is called from top-level code, and the
\* toString() of null throws a TypeError
OnError02(w, caller) ==
    IF caller = "null"
    THEN [Done(w.cache, w.lst, undefined) EXCEPT !.threw = TRUE]
    ELSE [Done(w.cache, w.lst, "null") EXCEPT !.logs = 1]

on02(w, X, events, data, callback, useCapture, caller) ==
    LET cb == IF IsFunction(data) THEN data ELSE callback
        hasElements == ~IsFunction(data)
        names == split(events)
    IN IF Len(X) = 0 THEN OnError02(w, caller)
       ELSE IF Len(X) > 1 THEN OnError02(w, caller)
       ELSE IF ~IsFunction(cb) THEN OnError02(w, caller)
       ELSE LET w1 == OnLoop02(w, X[1], names, hasElements, data, cb, useCapture)
            IN Done(w1.cache, w1.lst, "this")

\* a variant of offElement02 that does not compare the callback
offElement02AnyCallback(w, element, eventType, func) ==
    IF MapHas(w.cache, element)
    THEN LET handles == w.cache[element]
             hit(h) == eventType = undefined \/ eventType = h.event
             keep == SelectSeq(handles, LAMBDA h : ~hit(h))
         IN [cache |-> IF Len(keep) > 0 THEN MapSet(w.cache, element, keep)
                       ELSE MapDelete(w.cache, element),
             lst |-> removeAll(w.lst, element, SelectSeq(handles, hit))]
    ELSE w

\* a variant of offElement02 that stores the emptied array in place of
\* deleting the entry
offElement02KeepsEntry(w, element, eventType, func) ==
    IF MapHas(w.cache, element)
    THEN LET handles == w.cache[element]
             hit(h) == (eventType = undefined \/ eventType = h.event)
                       /\ (func = undefined \/ func = h.callback)
         IN [cache |-> MapSet(w.cache, element, SelectSeq(handles, LAMBDA h : ~hit(h))),
             lst |-> removeAll(w.lst, element, SelectSeq(handles, hit))]
    ELSE w

\* the body of off for one element
offElement02(w, element, eventType, func) ==
    IF MapHas(w.cache, element)
    THEN LET handles == w.cache[element]
             hit(h) == (eventType = undefined \/ eventType = h.event)
                       /\ (func = undefined \/ func = h.callback)
             keep == SelectSeq(handles, LAMBDA h : ~hit(h))
         IN [cache |-> IF Len(keep) > 0 THEN MapSet(w.cache, element, keep)
                       ELSE MapDelete(w.cache, element),
             lst |-> removeAll(w.lst, element, SelectSeq(handles, hit))]
    ELSE w

RECURSIVE OffLoop02(_, _, _, _)
OffLoop02(w, items, eventType, func) ==
    IF items = <<>> THEN w
    ELSE OffLoop02(offElement02(w, Head(items), eventType, func), Tail(items), eventType, func)

off02(w, X, eventType, func) ==
    LET w1 == OffLoop02(w, X, eventType, func)
    IN Done(w1.cache, w1.lst, "this")

(***************************************************************************)
(* Version 0.3                                                             *)
(***************************************************************************)
\* a variant of handleEventBinding that registers the binder without the
\* once option
handleEventBindingNoOnceOption(w, element, handle) ==
    [cache |-> IF MapHas(w.cache, element)
               THEN MapSet(w.cache, element, Append(w.cache[element], handle))
               ELSE MapSet(w.cache, element, <<handle>>),
     lst |-> addEventListener(w.lst, element, handle.event, handle.binder,
                              ToBoolean(handle.capture), FALSE)]

\* a variant of handleEventBinding that registers the binder in both phases
handleEventBindingBothPhases(w, element, handle) ==
    [cache |-> IF MapHas(w.cache, element)
               THEN MapSet(w.cache, element, Append(w.cache[element], handle))
               ELSE MapSet(w.cache, element, <<handle>>),
     lst |-> addEventListener(addEventListener(w.lst, element, handle.event, handle.binder,
                                               TRUE, handle.once),
                              element, handle.event, handle.binder, FALSE, handle.once)]

\* handleEventBinding(element, handle)
handleEventBinding(w, element, handle) ==
    [cache |-> IF MapHas(w.cache, element)
               THEN MapSet(w.cache, element, Append(w.cache[element], handle))
               ELSE MapSet(w.cache, element, <<handle>>),
     lst |-> addEventListener(w.lst, element, handle.event, handle.binder,
                              ToBoolean(handle.capture), handle.once)]

\* a variant of the loop of eventBind that binds the first element of the
\* collection only
BindLoop03FirstOnly(w, items, type, callback, useCapture, once) ==
    IF items = <<>> THEN w
    ELSE LET element == Head(items)
             handle == [event |-> type,
                        once |-> (once = "true"),
                        capture |-> JSBool(useCapture = "true"),
                        callback |-> callback,
                        binder |-> NewFn(w, Closure("createEventBind", element, type,
                                                    callback, FALSE, undefined, NoHandle))]
         IN handleEventBinding(w, element, handle)

RECURSIVE BindLoop03(_, _, _, _, _, _)
BindLoop03(w, items, type, callback, useCapture, once) ==
    IF items = <<>> THEN w
    ELSE LET element == Head(items)
             handle == [event |-> type,
                        once |-> (once = "true"),
                        capture |-> JSBool(useCapture = "true"),
                        callback |-> callback,
                        binder |-> NewFn(w, Closure("createEventBind", element, type,
                                                    callback, FALSE, undefined, NoHandle))]
         IN BindLoop03(handleEventBinding(w, element, handle), Tail(items),
                       type, callback, useCapture, once)

eventBind03(w, X, type, callback, useCapture, once) ==
    LET w1 == BindLoop03(w, X, type, callback, useCapture, once)
    IN Done(w1.cache, w1.lst, "this")

eventClick03(w, X, callback, useCapture) ==
    eventBind03(w, X, "click", callback, useCapture, undefined)

eventOnce03(w, X, type, callback, useCapture) ==
    eventBind03(w, X, type, callback, useCapture, "true")

\* a variant of OnLoop03 that stores the capture flag as requested, without
\* the test for blur and focus
RECURSIVE OnLoop03AsRequested(_, _, _, _, _, _, _)
OnLoop03AsRequested(w, element, events, hasElements, data, callback, useCapture) ==
    IF events = <<>> THEN w
    ELSE LET handle == [event |-> Head(events),
                        once |-> FALSE,
                        capture |-> useCapture,
                        binder |-> NewFn(w, Closure("createOnBinding", element, Head(events),
                                                    callback, hasElements, data, NoHandle)),
                        callback |-> callback]
         IN OnLoop03AsRequested(handleEventBinding(w, element, handle), element, Tail(events),
                                hasElements, data, callback, useCapture)

RECURSIVE OnLoop03(_, _, _, _, _, _, _)
OnLoop03(w, element, events, hasElements, data, callback, useCapture) ==
    IF events = <<>> THEN w
    ELSE LET handle == [event |-> Head(events),
                        once |-> FALSE,
                        capture |-> IF Head(events) = "blur" \/ Head(events) = "focus"
                                    THEN "true" ELSE useCapture,
                        binder |-> NewFn(w, Closure("createOnBinding", element, Head(events),
                                                    callback, hasElements, data, NoHandle)),
                        callback |-> callback]
         IN OnLoop03(handleEventBinding(w, element, handle), element, Tail(events),
                     hasElements, data, callback, useCapture)

\* consoleError(`Event::on - ...`); return null;
OnError03(w) == [Done(w.cache, w.lst, "null") EXCEPT !.logs = 1]

on03(w, X, events, data, callback, useCapture) ==
    LET cb == IF IsFunction(data) THEN data ELSE callback
        hasElements == ~IsFunction(data)
        names == split(events)
    IN IF Len(X) = 0 THEN OnError03(w)
       ELSE IF Len(X) > 1 THEN OnError03(w)
       ELSE IF ~IsFunction(cb) THEN OnError03(w)
       ELSE LET w1 == OnLoop03(w, X[1], names, hasElements, data, cb, useCapture)
            IN Done(w1.cache, w1.lst, "this")

\* a variant of offElement03 that deletes the handles from the Set without
\* the removeEventListener call
offElement03StoreOnly(w, element, eventType, func) ==
    IF MapHas(w.cache, element)
    THEN LET handlers == w.cache[element]
             hit(h) == (eventType = undefined \/ eventType = h.event)
                       /\ (func = undefined \/ func = h.callback)
             rest == SelectSeq(handlers, LAMBDA h : ~hit(h))
         IN [cache |-> IF Len(rest) = 0 THEN MapDelete(w.cache, element)
                       ELSE MapSet(w.cache, element, rest),
             lst |-> w.lst]
    ELSE w

\* a variant of offElement03 that does not compare the event name
offElement03AnyEvent(w, element, eventType, func) ==
    IF MapHas(w.cache, element)
    THEN LET handlers == w.cache[element]
             hit(h) == func = undefined \/ func = h.callback
             rest == SelectSeq(handlers, LAMBDA h : ~hit(h))
         IN [cache |-> IF Len(rest) = 0 THEN MapDelete(w.cache, element)
                       ELSE MapSet(w.cache, element, rest),
             lst |-> removeAll(w.lst, element, SelectSeq(handlers, hit))]
    ELSE w

\* a variant of offElement03 without handlerCache.delete(element): the
\* emptied Set stays in the store
offElement03KeepsEntry(w, element, eventType, func) ==
    IF MapHas(w.cache, element)
    THEN LET handlers == w.cache[element]
             hit(h) == (eventType = undefined \/ eventType = h.event)
                       /\ (func = undefined \/ func = h.callback)
         IN [cache |-> MapSet(w.cache, element, SelectSeq(handlers, LAMBDA h : ~hit(h))),
             lst |-> removeAll(w.lst, element, SelectSeq(handlers, hit))]
    ELSE w

\* the body of off for one element: the handles that pass the filter are
\* deleted from the Set while it is iterated
offElement03(w, element, eventType, func) ==
    IF MapHas(w.cache, element)
    THEN LET handlers == w.cache[element]
             hit(h) == (eventType = undefined \/ eventType = h.event)
                       /\ (func = undefined \/ func = h.callback)
             rest == SelectSeq(handlers, LAMBDA h : ~hit(h))
         IN [cache |-> IF Len(rest) = 0 THEN MapDelete(w.cache, element)
                       ELSE MapSet(w.cache, element, rest),
             lst |-> removeAll(w.lst, element, SelectSeq(handlers, hit))]
    ELSE w

\* a variant of the loop of off that goes through every element of the
\* document in place of the elements of the collection
OffLoop03Everywhere(w, items, eventType, func) ==
    IF items = <<>> THEN w
    ELSE offElement03(offElement03(offElement03(offElement03(offElement03(
            w, 1, eventType, func), 2, eventType, func), 3, eventType, func),
            4, eventType, func), 5, eventType, func)

RECURSIVE OffLoop03(_, _, _, _)
OffLoop03(w, items, eventType, func) ==
    IF items = <<>> THEN w
    ELSE OffLoop03(offElement03(w, Head(items), eventType, func), Tail(items), eventType, func)

off03(w, X, eventType, func) ==
    LET w1 == OffLoop03(w, X, eventType, func)
    IN Done(w1.cache, w1.lst, "this")

(***************************************************************************)
(* trigger, the same in both versions                                      *)
(***************************************************************************)
\* the event object trigger builds: through the CustomEvent constructor
\* (the init dictionary names "cancellable", which is no member of
\* CustomEventInit, so cancelable keeps its default false) or through
\* initCustomEvent(event, true, true, args)
CustomEventOf(event, args, hasConstructor) ==
    [type |-> event, custom |-> TRUE, bubbles |-> TRUE,
     cancelable |-> ~hasConstructor,
     detail |-> IF args = undefined THEN "null" ELSE "array"]

\* a variant of the loop of trigger that dispatches to the first element
\* only
TriggerLoopFirstOnly(d, items, eventObject, beh) ==
    IF items = <<>> THEN d
    ELSE dispatchEvent(d, [eventObject EXCEPT !.target = Head(items)], beh)

RECURSIVE TriggerLoop(_, _, _, _)
TriggerLoop(d, items, eventObject, beh) ==
    IF items = <<>> THEN d
    ELSE TriggerLoop(dispatchEvent(d, [eventObject EXCEPT !.target = Head(items)], beh),
                     Tail(items), eventObject, beh)

StartDispatch(w) ==
    [cache |-> w.cache, lst |-> w.lst, runs |-> <<>>, stop |-> FALSE, canceled |-> FALSE]

EndDispatch(d) ==
    [Done(d.cache, d.lst, undefined) EXCEPT !.runs = d.runs, !.canceled = d.canceled]

trigger(w, X, event, args, hasConstructor, beh) ==
    LET eventObject == CustomEventOf(event, args, hasConstructor) @@ [target |-> null]
    IN EndDispatch(TriggerLoop(StartDispatch(w), X, eventObject, beh))

\* an event of the platform itself (a click, a focus change) on target:
\* click bubbles and is cancelable, focus and blur are neither
NativeEventOf(type, target) ==
    [type |-> type, target |-> target, custom |-> FALSE, detail |-> "null",
     bubbles |-> (type = "click"), cancelable |-> (type = "click")]

nativeEvent(w, target, type, beh) ==
    EndDispatch(dispatchEvent(StartDispatch(w), NativeEventOf(type, target), beh))

(***************************************************************************)
(* The state machine.  eventCache / listeners02 are the store and the      *)
(* listener lists of the 0.2 world, handlerCache / listeners03 those of    *)
(* the 0.3 world.  Every action applies one API call (or one event of the  *)
(* platform) to both worlds.                                               *)
(***************************************************************************)
VARIABLES eventCache, listeners02, handlerCache, listeners03

vars == <<eventCache, listeners02, handlerCache, listeners03>>

W02 == [cache |-> eventCache, lst |-> listeners02]
W03 == [cache |-> handlerCache, lst |-> listeners03]

Init ==
    /\ eventCache = EmptyMap
    /\ listeners02 = NoListeners
    /\ handlerCache = EmptyMap
    /\ listeners03 = NoListeners

\* the step of a call that returned r2 in the 0.2 world and r3 in the 0.3
\* world; the stores are kept within MaxHandles handles
Step(r2, r3) ==
    \E a \in {r2}, b \in {r3} :
        /\ HandleCount(a.cache) <= MaxHandles
        /\ HandleCount(b.cache) <= MaxHandles
        /\ eventCache' = a.cache
        /\ listeners02' = a.lst
        /\ handlerCache' = b.cache
        /\ listeners03' = b.lst

EventBind(X, type, callback, useCapture, once) ==
    Step(eventBind02(W02, X, type, callback, useCapture),
         eventBind03(W03, X, type, callback, useCapture, once))

EventClick(X, callback, useCapture) ==
    Step(eventClick02(W02, X, callback, useCapture),
         eventClick03(W03, X, callback, useCapture))

EventOnce(X, type, callback, useCapture) ==
    Step(eventOnce02(W02, X, type, callback, useCapture),
         eventOnce03(W03, X, type, callback, useCapture))

On(X, events, data, callback, useCapture, caller) ==
    Step(on02(W02, X, events, data, callback, useCapture, caller),
         on03(W03, X, events, data, callback, useCapture))

Off(X, eventType, func) ==
    Step(off02(W02, X, eventType, func),
         off03(W03, X, eventType, func))

Trigger(X, event, args, hasConstructor, beh) ==
    Step(trigger(W02, X, event, args, hasConstructor, beh),
         trigger(W03, X, event, args, hasConstructor, beh))

NativeEvent(target, type, beh) ==
    Step(nativeEvent(W02, target, type, beh),
         nativeEvent(W03, target, type, beh))

(***************************************************************************)
(* Inputs                                                                  *)
(***************************************************************************)
Outcomes == {"undefined", "zero", "false", "throw"}
Behaviours == [Callbacks -> Outcomes]

\* the behaviours that differ in what cb1 does only
Behaviours1 == {beh \in Behaviours : beh["cb2"] = "undefined"}

\* every callback returns undefined
Quiet == [c \in Callbacks |-> "undefined"]

EventNames == {"click", "focus"}
Flags == {"true", "false", undefined}
Selectors == {".item", ".box"}
Args == {undefined, "array"}
Callers == {"function", "null"}

\* element 4 alone, and element 2 together with its descendant 4
Collections == {<<4>>, <<2, 4>>}

(***************************************************************************)
(* Observations of a world                                                 *)
(***************************************************************************)
\* the function values registered as listeners on e
Registered(w, e) == { w.lst[e][i].callback : i \in 1..Len(w.lst[e]) }

\* the records of the store entry of e
Records(w, e) ==
    IF MapHas(w.cache, e) THEN { w.cache[e][i] : i \in 1..Len(w.cache[e]) } ELSE {}

\* the wrappers of the records of the store entry of e
Stored(w, e) == { HandleFn(h) : h \in Records(w, e) }

\* the wrapper runs of a call
Runs(r) == { r.runs[i] : i \in 1..Len(r.runs) }

Elems(X) == { X[k] : k \in 1..Len(X) }

\* the elements above e
Ancestors(e) == { PathUp(e)[i] : i \in 2..Len(PathUp(e)) }

\* P(r, n) for the result r of every event on the world w; n is the number
\* of dispatchEvent calls behind r
EveryDispatch(w, P(_, _)) ==
    /\ \A X \in Collections, event \in EventNames, args \in Args,
          hasConstructor \in BOOLEAN, beh \in Behaviours1 :
            P(trigger(w, X, event, args, hasConstructor, beh), Len(X))
    /\ \A target \in Nodes, type \in EventNames, beh \in Behaviours1 :
            P(nativeEvent(w, target, type, beh), 1)

(***************************************************************************)
(* Spec: direct bindings, permanent (eventBind) and one-shot (eventOnce),  *)
(* on element 4 and on the collection of 2 and 4, removal of everything,   *)
(* and events on every element.                                            *)
(***************************************************************************)
Next ==
    \/ \E X \in Collections, type \in EventNames :
            EventBind(X, type, "cb1", "false", undefined)
    \/ \E X \in Collections, type \in EventNames, useCapture \in {"true", "false"} :
            EventOnce(X, type, "cb1", useCapture)
    \/ \E X \in Collections :
            Off(X, undefined, undefined)
    \/ \E X \in Collections, event \in EventNames, args \in Args,
          hasConstructor \in BOOLEAN, beh \in Behaviours1 :
            Trigger(X, event, args, hasConstructor, beh)
    \/ \E target \in Nodes, type \in EventNames, beh \in Behaviours1 :
            NativeEvent(target, type, beh)

Spec == Init /\ [][Next]_vars

\* C1 (as stated): in both variants, in every state between operations, a
\* dispatch wrapper is registered as a listener on an element if and only if
\* the store entry of that element holds a record with that wrapper.
C1_StorePlatformConsistency ==
    \A e \in Nodes :
        /\ Registered(W02, e) = Stored(W02, e)
        /\ Registered(W03, e) = Stored(W03, e)

\* in the 0.3 world E holds one record, a one-shot one, and nothing is
\* bound above E
SoleOnce03(E) ==
    /\ MapHas(handlerCache, E)
    /\ Len(handlerCache[E]) = 1
    /\ handlerCache[E][1].once
    /\ \A a \in Ancestors(E) : ~MapHas(handlerCache, a) /\ listeners03[a] = <<>>

\* C2: 0.3 variant: when an element E holds nothing but a one-shot record of
\* event T (bound by eventOnce, that is eventBind with once = true, with
\* either capture flag), two triggers of T on E invoke the callback exactly
\* once in total: the first trigger invokes it once and leaves no store
\* entry and no listener for E, the second trigger invokes nothing.
C2_OneShot ==
    \A E \in Nodes :
        SoleOnce03(E) =>
            \A args \in Args, hasConstructor \in BOOLEAN, beh1 \in Behaviours1,
               beh2 \in Behaviours1 :
                LET h  == handlerCache[E][1]
                    r1 == trigger(W03, <<E>>, h.event, args, hasConstructor, beh1)
                    r2 == trigger(r1, <<E>>, h.event, args, hasConstructor, beh2)
                IN /\ Len(r1.runs) = 1
                   /\ r1.runs[1].n = 1
                   /\ r1.runs[1].cb = h.callback
                   /\ r1.runs[1].f = h.binder
                   /\ ~MapHas(r1.cache, E)
                   /\ r1.lst[E] = <<>>
                   /\ r2.runs = <<>>

\* C2 witness: a one-shot record registered in the capture phase is the only
\* binding of its element, and one registered in the bubble phase is the
\* only binding of another
C2_Witness ==
    /\ SoleOnce03(2) /\ handlerCache[2][1].capture = "true"
    /\ MapHas(handlerCache, 4) /\ handlerCache[4][1].once
    /\ handlerCache[4][1].capture = "false"

(***************************************************************************)
(* SpecForms: bindings of every form (eventBind and eventOnce on element   *)
(* 4, eventClick on 4 and on the collection of 2 and 4, on with a selector *)
(* and with a callback only on element 2), removal of everything, and      *)
(* events on every element.                                                *)
(***************************************************************************)
NextForms ==
    \/ \E type \in EventNames :
            EventBind(<<4>>, type, "cb1", undefined, undefined)
    \/ \E X \in Collections :
            EventClick(X, "cb1", undefined)
    \/ \E type \in EventNames :
            EventOnce(<<4>>, type, "cb1", undefined)
    \/ \E data \in Selectors \cup {"cb1"} :
            On(<<2>>, <<"click">>, data, "cb1", undefined, "function")
    \/ \E X \in Collections :
            Off(X, undefined, undefined)
    \/ \E X \in Collections, event \in EventNames, args \in Args,
          hasConstructor \in BOOLEAN, beh \in Behaviours1 :
            Trigger(X, event, args, hasConstructor, beh)
    \/ \E target \in Nodes, type \in EventNames, beh \in Behaviours1 :
            NativeEvent(target, type, beh)

SpecForms == Init /\ [][NextForms]_vars

\* every wrapper run whose callback threw has called preventDefault and
\* stopPropagation, has logged, and has returned normally
ErrorIsolated(r, n) ==
    \A run \in Runs(r) :
        run.out = "throw" => run.pd /\ run.sp /\ run.logs >= 1 /\ ~run.threw

\* C3 (as stated): for every binding form in both variants and every kind of
\* event, a custom event made by trigger with or without a detail payload
\* included, when the callback throws the wrapper calls preventDefault and
\* stopPropagation, logs through consoleError and returns normally.
C3_ErrorIsolation ==
    /\ EveryDispatch(W02, ErrorIsolated)
    /\ EveryDispatch(W03, ErrorIsolated)

\* the runs of one call: a callback that returned false was invoked once,
\* the wrapper cancelled the event and logged nothing; after any other
\* return value the wrapper cancelled nothing; and within one dispatch no
\* wrapper ran twice
ReturnFalseIdiom(r, n) ==
    /\ \A run \in Runs(r) :
        /\ run.out = "false" =>
                run.pd /\ run.sp /\ run.n = 1 /\ run.logs = 0 /\ ~run.threw
        /\ run.out \in {"undefined", "zero"} =>
                ~run.pd /\ ~run.sp /\ run.n = 1 /\ run.logs = 0 /\ ~run.threw
    /\ n = 1 => \A i, j \in 1..Len(r.runs) : i # j => r.runs[i].f # r.runs[j].f

\* C4: for every binding form in both variants, when the callback returns
\* the boolean false the wrapper calls preventDefault and stopPropagation,
\* the callback was invoked exactly once for that dispatch and nothing is
\* logged; when it returns another value (undefined, 0) the wrapper calls
\* neither preventDefault nor stopPropagation.
C4_ReturnFalse ==
    /\ EveryDispatch(W02, ReturnFalseIdiom)
    /\ EveryDispatch(W03, ReturnFalseIdiom)

\* C4 witness: a direct click binding on element 4 below a delegated click
\* binding with a selector on element 2, in both variants
C4_Witness ==
    /\ \E h \in Records(W02, 4) : h.f.fn = "eventClick"
    /\ \E h \in Records(W02, 2) : h.f.fn = "onEventHandler" /\ h.f.hasElements
    /\ \E h \in Records(W03, 4) : h.binder.fn = "createEventBind" /\ h.event = "click"
    /\ \E h \in Records(W03, 2) : h.binder.fn = "createOnBinding" /\ h.binder.hasElements

(***************************************************************************)
(* SpecOff: bindings of two callbacks and two event names by every binder, *)
(* off with every combination of filters, and triggers.                    *)
(***************************************************************************)
EventTypeFilters == {undefined} \cup EventNames
FuncFilters == {undefined} \cup Callbacks

NextOff ==
    \/ \E X \in Collections, type \in EventNames, callback \in Callbacks :
            EventBind(X, type, callback, "false", undefined)
    \/ EventClick(<<4>>, "cb2", "true")
    \/ \E X \in Collections, type \in EventNames :
            EventOnce(X, type, "cb1", "false")
    \/ \E data \in {".item", "cb2"} :
            On(<<2>>, <<"click">>, data, "cb1", undefined, "function")
    \/ \E X \in Collections, eventType \in EventTypeFilters, func \in FuncFilters :
            Off(X, eventType, func)
    \/ \E X \in Collections, event \in EventNames, beh \in Behaviours1 :
            Trigger(X, event, "array", TRUE, beh)

SpecOff == Init /\ [][NextOff]_vars

\* r is the world after off() without arguments on the collection X: the
\* elements of X have no store entry and no listener, and a trigger of any
\* event on them runs no wrapper of theirs; it runs nothing at all when
\* nothing is bound above them
OffAllClears(r, X) ==
    /\ \A e \in Elems(X) : ~MapHas(r.cache, e) /\ r.lst[e] = <<>>
    /\ \A Y \in {X} \cup { <<e>> : e \in Elems(X) }, event \in EventNames,
          beh \in Behaviours1 :
            LET t == trigger(r, Y, event, "array", TRUE, beh)
            IN /\ \A run \in Runs(t) : run.el \notin Elems(X)
               /\ (\A e \in Elems(Y) : \A a \in Ancestors(e) : r.lst[a] = <<>>)
                    => t.runs = <<>>

\* C5: after off() without arguments, for every element of the collection
\* the store has no entry and none of its wrappers is registered, whatever
\* mix of event names, capture flags, once flags and binders made the
\* records; a later trigger of any event on those elements invokes no
\* callback bound on them (and none at all when only they were bound).
C5_OffAll ==
    \A X \in Collections :
        /\ OffAllClears(off02(W02, X, undefined, undefined), X)
        /\ OffAllClears(off03(W03, X, undefined, undefined), X)

\* C5 witness: element 4 holds records of different binders, event names,
\* capture flags and once flags
C5_Witness ==
    /\ \E h \in Records(W03, 4) : h.once /\ h.capture = "false" /\ h.event = "focus"
    /\ \E h \in Records(W03, 4) : ~h.once /\ h.capture = "true" /\ h.event = "click"
    /\ \E h \in Records(W02, 4) : h.f.fn = "eventOnce"
    /\ \E h \in Records(W02, 4) : h.f.fn = "eventClick"

\* the wrapper f invokes its callback when an event that reaches it has the
\* target e, the element f is bound on
InvokesAt(f, e) == ~f.hasElements \/ matches(e, f.data)

\* w is a world, r the world after off(T) on the collection X
OffNameFrame(w, r, X, T) ==
    \A e \in Elems(X) :
        \* exactly the records of event T are gone
        /\ Records(r, e) = { h \in Records(w, e) : h.event # T }
        /\ MapHas(r.cache, e) <=> Records(r, e) # {}
        \* the listeners of the other records are as they were, the
        \* listeners of the records of T are gone
        /\ \A i \in 1..Len(w.lst[e]) :
              LET l == w.lst[e][i]
              IN (\E h \in Records(r, e) : HandleFn(h) = l.callback)
                    <=> (\E j \in 1..Len(r.lst[e]) : r.lst[e][j] = l)
        /\ \A h \in Records(r, e) :
              \A j \in 1..Len(r.lst[e]) :
                 r.lst[e][j].callback = HandleFn(h) =>
                    /\ r.lst[e][j].capture = ToBoolean(h.capture)
                    /\ r.lst[e][j].type = h.event
        /\ Registered(r, e) \subseteq Registered(w, e)
        \* a later trigger of another event runs what it ran before
        /\ \A T2 \in EventNames \ {T}, beh \in Behaviours1 :
              trigger(r, <<e>>, T2, "array", TRUE, beh).runs
                = trigger(w, <<e>>, T2, "array", TRUE, beh).runs
        \* and the callback of every registered record of that event is
        \* invoked
        /\ \A h \in Records(r, e) :
              (h.event # T /\ HandleFn(h) \in Registered(r, e) /\ InvokesAt(HandleFn(h), e)) =>
                 \E run \in Runs(trigger(r, <<e>>, h.event, "array", TRUE, Quiet)) :
                    run.el = e /\ run.cb = h.callback /\ run.n = 1

\* C6: off(T) with only an event name removes, for each element of the
\* collection, exactly the records whose event name is T; every record of
\* another event name stays in the store, its wrapper stays registered with
\* the capture flag of the record, and its callback is still invoked on a
\* later trigger of its event.
C6_OffName ==
    \A X \in Collections, T \in EventNames :
        /\ OffNameFrame(W02, off02(W02, X, T, undefined), X, T)
        /\ OffNameFrame(W03, off03(W03, X, T, undefined), X, T)

\* C6 witness: element 4 holds a click record and a focus record in both
\* variants, registered in different phases
C6_Witness ==
    /\ \E h \in Records(W03, 4) : h.event = "click" /\ h.capture = "true"
    /\ \E h \in Records(W03, 4) : h.event = "focus" /\ h.capture = "false"
    /\ \E h \in Records(W02, 4) : h.event = "click" /\ h.capture = "true"
    /\ \E h \in Records(W02, 4) : h.event = "focus" /\ h.capture = "false"

\* the filter of off(eventType, func) as the claim states it
FilterMatches(h, eventType, func) ==
    /\ eventType = undefined \/ eventType = h.event
    /\ func = undefined \/ func = h.callback

\* w is a world, r the world after off(eventType, func) on the collection X
OffFilter(w, r, X, eventType, func) ==
    \A e \in Elems(X) :
        /\ \A h \in Records(w, e) :
              /\ (h \notin Records(r, e)) <=> FilterMatches(h, eventType, func)
              /\ (HandleFn(h) \in Registered(r, e))
                    <=> (HandleFn(h) \in Registered(w, e)
                         /\ ~FilterMatches(h, eventType, func))
        /\ Records(r, e) \subseteq Records(w, e)
        /\ Registered(r, e) \subseteq Registered(w, e)

\* C7: off(eventType, func) removes a record from the store and deregisters
\* its wrapper if and only if (eventType is undefined or equals the record's
\* event name) and (func is undefined or is the record's callback); so
\* off(undefined, cb) removes every record of cb across all event names and
\* no record of another callback.
C7_OffFilter ==
    \A X \in Collections, eventType \in EventTypeFilters, func \in FuncFilters :
        /\ OffFilter(W02, off02(W02, X, eventType, func), X, eventType, func)
        /\ OffFilter(W03, off03(W03, X, eventType, func), X, eventType, func)

\* C7 witness: element 4 holds records of both callbacks for the same event
\* name and records of one callback for both event names
C7_Witness ==
    /\ \E h \in Records(W02, 4) : h.event = "click" /\ h.callback = "cb1"
    /\ \E h \in Records(W02, 4) : h.event = "click" /\ h.callback = "cb2"
    /\ \E h \in Records(W03, 4) : h.event = "click" /\ h.callback = "cb1"
    /\ \E h \in Records(W03, 4) : h.event = "click" /\ h.callback = "cb2"

(***************************************************************************)
(* SpecOn: on() on element 2 with one and with two event names, with a     *)
(* selector and with a callback only, with every capture argument; on()    *)
(* used wrongly; off on element 2; events on 2 and its descendants.        *)
(***************************************************************************)
OnNames == {"click", "focus", "blur"}
OnEvents == {<<"click">>, <<"focus">>, <<"click", " ", "blur">>}
OnData == Selectors \cup {"cb1"}
OnTargets == {2, 3, 4}

NextOn ==
    \/ \E events \in OnEvents, data \in OnData, useCapture \in Flags :
            On(<<2>>, events, data, "cb1", useCapture, "function")
    \/ \E X \in {<<>>, <<2, 4>>}, caller \in Callers :
            On(X, <<"click">>, ".item", "cb1", undefined, caller)
    \/ \E data \in {".item", undefined}, caller \in Callers :
            On(<<2>>, <<"click">>, data, undefined, undefined, caller)
    \/ \E eventType \in {undefined, "focus"} :
            Off(<<2>>, eventType, undefined)
    \/ \E target \in OnTargets, event \in OnNames, beh \in Behaviours1 :
            Trigger(<<target>>, event, "array", TRUE, beh)
    \/ \E target \in OnTargets, type \in OnNames, beh \in Behaviours1 :
            NativeEvent(target, type, beh)

SpecOn == Init /\ [][NextOn]_vars

\* on() is used wrongly: no element, more than one element, or no function
\* as callback
OnUsageError(X, data, callback) ==
    Len(X) = 0 \/ Len(X) > 1 \/ (~IsFunction(data) /\ ~IsFunction(callback))

\* r is what on() did in the world w: a diagnostic, null, no exception and
\* no change
OnRejected(w, r) ==
    /\ r.logs >= 1
    /\ r.ret = "null"
    /\ ~r.threw
    /\ r.cache = w.cache
    /\ r.lst = w.lst

\* C8 (as stated): in both variants, when the collection has no element or
\* more than one, or no function is resolved as callback, on() logs a
\* diagnostic, returns null, never throws whatever the calling context, and
\* leaves the store and the registrations unchanged.
C8_OnUsageErrors ==
    \A X \in {<<>>, <<2>>, <<2, 4>>}, events \in OnEvents,
       data \in {".item", "cb1", undefined}, callback \in {"cb1", undefined},
       useCapture \in Flags, caller \in Callers :
        OnUsageError(X, data, callback) =>
            /\ OnRejected(W02, on02(W02, X, events, data, callback, useCapture, caller))
            /\ OnRejected(W03, on03(W03, X, events, data, callback, useCapture))

\* the capture phase on() has to register a record of event name in
IsFocusOrBlur(name) == name = "focus" \/ name = "blur"

\* r is the world after on(events, ..., useCapture) on element e of world w:
\* one new listener per event name, in the capture phase for focus and blur
\* and in the requested phase otherwise, its record stored with capture true
\* for focus and blur; and off removes each of them again
OnPhases(w, r, e, events, useCapture, off(_, _, _, _)) ==
    LET names == split(events)
        new == SelectSeq(r.lst[e], LAMBDA l : l.callback \notin LiveFns(w))
        cleared == off(r, <<e>>, undefined, undefined)
    IN /\ Len(new) = Len(names)
       /\ \A i \in 1..Len(new) :
            /\ new[i].type = names[i]
            /\ new[i].capture = (IsFocusOrBlur(names[i]) \/ useCapture = "true")
            /\ \E h \in Records(r, e) :
                  /\ HandleFn(h) = new[i].callback
                  /\ h.event = names[i]
                  /\ IsFocusOrBlur(names[i]) => h.capture = "true"
            /\ \A eventType \in {undefined, names[i]} :
                  new[i].callback \notin Registered(off(r, <<e>>, eventType, undefined), e)
       /\ cleared.lst[e] = <<>>
       /\ ~MapHas(cleared.cache, e)

\* every record of w on e is registered in the phase its capture field
\* tells, the capture phase if its event name is focus or blur
StoredPhases(w, e) ==
    \A h \in Records(w, e) :
        /\ \E i \in 1..Len(w.lst[e]) :
              /\ w.lst[e][i].callback = HandleFn(h)
              /\ w.lst[e][i].type = h.event
              /\ w.lst[e][i].capture = ToBoolean(h.capture)
        /\ IsFocusOrBlur(h.event) => h.capture = "true"

\* C9: on() with event name focus or blur registers the wrapper in the
\* capture phase and stores capture as true even when useCapture is false
\* or omitted; for every other event name the registration phase is the
\* requested one (bubble phase when omitted); and off() deregisters each
\* record with the phase it was registered with.
C9_CaptureForcing ==
    /\ StoredPhases(W02, 2)
    /\ StoredPhases(W03, 2)
    /\ \A events \in OnEvents, data \in OnData, useCapture \in Flags :
          /\ OnPhases(W02, on02(W02, <<2>>, events, data, "cb1", useCapture, "function"),
                      2, events, useCapture, off02)
          /\ OnPhases(W03, on03(W03, <<2>>, events, data, "cb1", useCapture),
                      2, events, useCapture, off03)

\* C9 witness: element 2 holds a focus record beside a click record that was
\* bound without a capture argument
C9_Witness ==
    /\ \E h \in Records(W03, 2) : h.event = "focus" /\ h.capture = "true"
    /\ \E h \in Records(W03, 2) : h.event = "click" /\ h.capture = undefined
    /\ \E h \in Records(W02, 2) : h.event = "focus" /\ h.capture = "true"
    /\ \E h \in Records(W02, 2) : h.event = "click" /\ h.capture = "false"

\* r is the result of one dispatch of an event with target t: every wrapper
\* of on() with a selector that t itself matches invoked its callback once,
\* on t, with target wrapping t and delegateTarget wrapping the root, and
\* with currentTarget the target (hasCurrentTarget) or absent
DirectMatch(r, t, hasCurrentTarget) ==
    /\ \A run \in Runs(r) :
          (run.f.hasElements /\ matches(t, run.f.data)) =>
              /\ run.n = 1
              /\ run.this = t
              /\ run.arg = "elements"
              /\ run.target = t
              /\ run.delegateTarget = run.f.element
              /\ run.currentTarget = (IF hasCurrentTarget THEN run.target ELSE null)
    /\ \A i, j \in 1..Len(r.runs) : i # j => r.runs[i].f # r.runs[j].f

DirectMatches(w, hasCurrentTarget) ==
    \A t \in OnTargets, type \in OnNames, beh \in Behaviours1 :
        /\ DirectMatch(nativeEvent(w, t, type, beh), t, hasCurrentTarget)
        /\ DirectMatch(trigger(w, <<t>>, type, "array", TRUE, beh), t, hasCurrentTarget)

DelegateSelectors == {".item", ".box", ".root", ".top"}

NextDelegate ==
    \/ \E data \in DelegateSelectors, useCapture \in {"true", undefined} :
            On(<<2>>, <<"click">>, data, "cb1", useCapture, "function")
    \/ \E data \in DelegateSelectors :
            On(<<2>>, <<"focus">>, data, "cb1", undefined, "function")
    \/ Off(<<2>>, undefined, undefined)
    \/ \E target \in OnTargets, event \in EventNames, beh \in Behaviours1 :
            Trigger(<<target>>, event, "array", TRUE, beh)
    \/ \E target \in OnTargets, type \in EventNames, beh \in Behaviours1 :
            NativeEvent(target, type, beh)

SpecDelegate == Init /\ [][NextDelegate]_vars

\* the elements from t up to and including the root R (t is R or below R)
RECURSIVE PathTo(_, _)
PathTo(t, R) == IF t = R THEN <<R>> ELSE <<t>> \o PathTo(Parent[t], R)

\* the first element of path that matches selector, null if none does
RECURSIVE FirstMatch(_, _)
FirstMatch(path, selector) ==
    IF path = <<>> THEN null
    ELSE IF matches(Head(path), selector) THEN Head(path)
    ELSE FirstMatch(Tail(path), selector)

\* the wrapper of run is one of on() with a selector that the target t of the
\* event does not match
IndirectRun(run, t) == run.f.hasElements /\ ~matches(t, run.f.data)

\* r is the result of one dispatch of an event with target t: every wrapper
\* of on() with a selector that t does not match invoked its callback once
\* if an element A from t up to the root matches, with this = A,
\* currentTarget wrapping A, delegateTarget wrapping the root and target
\* wrapping t, and did not invoke it otherwise
AncestorMatch(r, t) ==
    /\ \A run \in Runs(r) :
          IndirectRun(run, t) =>
              LET A == FirstMatch(PathTo(t, run.el), run.f.data)
              IN IF A = null THEN run.n = 0
                 ELSE /\ run.n = 1
                      /\ run.this = A
                      /\ run.arg = "elements"
                      /\ run.currentTarget = A
                      /\ run.delegateTarget = run.el
                      /\ run.target = t
    /\ \A i, j \in 1..Len(r.runs) : i # j => r.runs[i].f # r.runs[j].f

AncestorMatches(w) ==
    \A t \in OnTargets, type \in EventNames, beh \in Behaviours1 :
        /\ AncestorMatch(nativeEvent(w, t, type, beh), t)
        /\ AncestorMatch(trigger(w, <<t>>, type, "array", TRUE, beh), t)

\* C11 (as stated): for on(T, selector, cb) on root R, when the target X does
\* not match the selector, the nearest matching element A on the way from
\* X's parent up to and including R, never past R, is selected, and cb is
\* invoked exactly once with this = A, currentTarget wrapping A,
\* delegateTarget wrapping R and target wrapping X; in both variants.
C11_AncestorMatch ==
    /\ AncestorMatches(W02)
    /\ AncestorMatches(W03)

\* the wrapper of run is one of on() with a selector that no element from
\* the target t up to the root matches
UnmatchedRun(run, t) ==
    run.f.hasElements /\ FirstMatch(PathTo(t, run.el), run.f.data) = null

\* r is the result of one dispatch in the world w of an event with target
\* t: a wrapper without a match invoked nothing, logged nothing and
\* cancelled nothing; its record is still stored and registered, and a later
\* event of its type whose target matches the selector invokes the callback
NoMatch(w, r, t) ==
    \A run \in Runs(r) :
        UnmatchedRun(run, t) =>
            /\ run.n = 0 /\ run.logs = 0 /\ ~run.pd /\ ~run.sp /\ ~run.threw
            /\ \E h \in Records(r, run.el) : HandleFn(h) = run.f
            /\ run.f \in Registered(r, run.el)
            /\ Records(r, run.el) = Records(w, run.el)
            /\ r.lst[run.el] = w.lst[run.el]
            /\ \A t2 \in OnTargets :
                  matches(t2, run.f.data) =>
                      \E run2 \in Runs(nativeEvent(r, t2, run.f.type, Quiet)) :
                          run2.f = run.f /\ run2.n = 1 /\ run2.cb = run.cb

NoMatches(w) ==
    \A t \in OnTargets, type \in EventNames, beh \in Behaviours1 :
        /\ NoMatch(w, nativeEvent(w, t, type, beh), t)
        /\ NoMatch(w, trigger(w, <<t>>, type, "array", TRUE, beh), t)

\* C12: for on(T, selector, cb) on root R, when neither the target nor any
\* element on the way from the target up to and including R matches the
\* selector, cb is not invoked for that event, nothing is logged, and the
\* wrapper calls neither preventDefault nor stopPropagation; the record
\* stays bound, and a later event whose target matches still invokes cb.
C12_NoMatch ==
    /\ NoMatches(W02)
    /\ NoMatches(W03)

\* C12 witness: element 2 holds a click record whose selector matches only
\* element 1, which is above the root, beside a record whose selector
\* matches 3 and 4 but not the root
C12_Witness ==
    /\ \E h \in Records(W02, 2) : h.event = "click" /\ h.f.data = ".top"
    /\ \E h \in Records(W03, 2) : h.event = "click" /\ h.binder.data = ".top"
    /\ \E h \in Records(W03, 2) : h.event = "click" /\ h.binder.data = ".item"
    /\ ~matches(2, ".top") /\ ~matches(3, ".top") /\ ~matches(4, ".top")
    /\ matches(1, ".top") /\ 1 \in Ancestors(2)

(***************************************************************************)
(* SpecDirect: permanent direct bindings (eventBind) of two callbacks and  *)
(* two event names, in either phase on element 4 and in the bubble phase   *)
(* on the collections of 4 and 5 (unrelated elements) and of 2 and 4       *)
(* (ancestor and descendant); off; triggers on these collections and on    *)
(* the empty one.                                                          *)
(***************************************************************************)
DirectCollections == {<<4, 5>>, <<2, 4>>}
TriggerCollections == {<<>>, <<4>>, <<5>>, <<4, 5>>, <<2, 4>>}

NextDirect ==
    \/ \E type \in EventNames, callback \in Callbacks, useCapture \in {"true", "false"} :
            EventBind(<<4>>, type, callback, useCapture, undefined)
    \/ \E X \in DirectCollections, type \in EventNames, callback \in Callbacks :
            EventBind(X, type, callback, "false", undefined)
    \/ \E X \in TriggerCollections :
            Off(X, undefined, undefined)
    \/ \E X \in TriggerCollections, event \in EventNames, beh \in Behaviours1 :
            Trigger(X, event, "array", TRUE, beh)

SpecDirect == Init /\ [][NextDirect]_vars

\* the runs of r made by wrappers registered on e
RunsAt(r, e) == SelectSeq(r.runs, LAMBDA run : run.el = e)

\* E holds exactly one record in the world w, and no listener above E is
\* registered in the capture phase
SoleRecord(w, E) ==
    /\ MapHas(w.cache, E)
    /\ Len(w.cache[E]) = 1
    /\ \A a \in Ancestors(E) : \A i \in 1..Len(w.lst[a]) : ~w.lst[a][i].capture

\* nothing is registered above E
Isolated(w, E) == \A a \in Ancestors(E) : w.lst[a] = <<>>

\* r is the result of a trigger of the event of the only record h of E in
\* the world w
FiresOnce(w, r, E, h) ==
    /\ Len(RunsAt(r, E)) = 1
    /\ RunsAt(r, E)[1].f = HandleFn(h)
    /\ RunsAt(r, E)[1].cb = h.callback
    /\ RunsAt(r, E)[1].n = 1
    /\ RunsAt(r, E)[1].this = E
    /\ RunsAt(r, E)[1].arg = "DDom"
    /\ RunsAt(r, E)[1].target = E
    /\ Isolated(w, E) => Len(r.runs) = 1
    /\ r.cache = w.cache
    /\ r.lst = w.lst

DirectFiresOnce(w) ==
    \A E \in Nodes :
        SoleRecord(w, E) =>
            LET h == w.cache[E][1]
            IN \A args \in Args, hasConstructor \in {TRUE}, beh1 \in Behaviours1,
                  beh2 \in Behaviours1 :
                    LET r1 == trigger(w, <<E>>, h.event, args, hasConstructor, beh1)
                        r2 == trigger(r1, <<E>>, h.event, args, hasConstructor, beh2)
                    IN /\ FiresOnce(w, r1, E, h)
                       /\ FiresOnce(r1, r2, E, h)
                       /\ \A T2 \in EventNames \ {h.event} :
                             LET r3 == trigger(w, <<E>>, T2, args, hasConstructor, beh1)
                             IN /\ RunsAt(r3, E) = <<>>
                                /\ Isolated(w, E) => r3.runs = <<>>

\* C13: after a single eventBind(T, cb) with once = false on a collection,
\* for every element E of it each trigger of T on E invokes cb exactly once
\* through E's record, with this = E and a second argument that wraps E;
\* successive triggers each invoke it once again, and a trigger of another
\* event name does not invoke it.
C13_DirectFiresOnce ==
    /\ DirectFiresOnce(W02)
    /\ DirectFiresOnce(W03)

\* C13 witness: elements 2 and 4, bound by one eventBind call on their
\* collection, each hold that one record, and so does element 5
C13_Witness ==
    /\ SoleRecord(W02, 2) /\ SoleRecord(W02, 4) /\ SoleRecord(W03, 2) /\ SoleRecord(W03, 4)
    /\ handlerCache[2][1].event = handlerCache[4][1].event
    /\ ~handlerCache[4][1].once

\* the elements that are neither E1, nor above it, nor below it
Unrelated(E1) == { n \in Nodes \ {E1} : n \notin Ancestors(E1) /\ E1 \notin Ancestors(n) }

\* only the callback cb throws
ThrowOnly(cb) == [c \in Callbacks |-> IF c = cb THEN "throw" ELSE "undefined"]

\* the listeners of T on E1 whose callback is cb / is another callback
ListenersOf(w, E1, T, cb) ==
    { l \in { w.lst[E1][i] : i \in 1..Len(w.lst[E1]) } :
        l.type = T /\ l.callback.callback = cb }

OtherListeners(w, E1, T, cb) ==
    { l \in { w.lst[E1][i] : i \in 1..Len(w.lst[E1]) } :
        l.type = T /\ l.callback.callback # cb }

\* the wrapper of the listener l of E1 ran in r and invoked its callback
InvokedIn(r, E1, l) ==
    \E run \in Runs(r) : run.f = l.callback /\ run.el = E1 /\ run.n = 1

\* r1 is the result of a trigger of T on E1 in which cb threw: the records
\* and listeners of every unrelated element E2 are those of before, a later
\* trigger of T on E2 runs what it runs without the failure, and each of
\* E2's records of T is invoked once by it
OthersUntouched(w, r1, E1, T, args, hasConstructor) ==
    \A E2 \in Unrelated(E1) :
        /\ MapHas(r1.cache, E2) <=> MapHas(w.cache, E2)
        /\ MapHas(w.cache, E2) => r1.cache[E2] = w.cache[E2]
        /\ r1.lst[E2] = w.lst[E2]
        /\ \A beh2 \in Behaviours1 :
              trigger(r1, <<E2>>, T, args, hasConstructor, beh2).runs
                  = trigger(w, <<E2>>, T, args, hasConstructor, beh2).runs
        /\ \A h \in Records(w, E2) :
              h.event = T =>
                  LET at == SelectSeq(trigger(r1, <<E2>>, T, args, hasConstructor, Quiet).runs,
                                      LAMBDA run : run.f = HandleFn(h) /\ run.el = E2)
                  IN Len(at) = 1 /\ at[1].n = 1

\* P(w, r1, E1, T, cb) for the result r1 of every trigger of T on an element
\* E1 that holds a record of T whose callback cb throws in it
EveryThrow(w, P(_, _, _, _, _), Q(_, _, _, _, _, _)) ==
    \A E1 \in Nodes, T \in EventNames, cb \in Callbacks :
        (ListenersOf(w, E1, T, cb) # {}) =>
            \A args \in Args, hasConstructor \in {TRUE} :
                LET r1 == trigger(w, <<E1>>, T, args, hasConstructor, ThrowOnly(cb))
                IN /\ \E run \in Runs(r1) : run.el = E1 /\ run.out = "throw"
                   /\ P(w, r1, E1, T, cb)
                   /\ Q(w, r1, E1, T, args, hasConstructor)

\* every other listener of T on E1 is invoked in the same dispatch
SameElementAll(w, r1, E1, T, cb) ==
    \A l \in OtherListeners(w, E1, T, cb) : InvokedIn(r1, E1, l)

\* every other listener of T on E1 is invoked in the same dispatch, unless
\* it is a bubble-phase listener and a throwing one is registered in the
\* capture phase: a stopped event does not reach the target's bubble-phase
\* step
SameElementPhase(w, r1, E1, T, cb) ==
    \A l \in OtherListeners(w, E1, T, cb) :
        (l.capture \/ \A t \in ListenersOf(w, E1, T, cb) : ~t.capture)
            => InvokedIn(r1, E1, l)

SplitInputs == {<<"click">>, <<"click", " ", "blur">>, <<"click", " ", " ", "blur">>,
                <<"click", "\t", "blur">>}

\* the event names of a whitespace-separated list
NamesOf(events) == SelectSeq(events, LAMBDA t : t \notin {" ", "\t"})

\* the records that the call with result r added to the entry of e
Added(w, r, e) ==
    LET old == IF MapHas(w.cache, e) THEN Len(w.cache[e]) ELSE 0
    IN IF MapHas(r.cache, e) THEN SubSeq(r.cache[e], old + 1, Len(r.cache[e])) ELSE <<>>

\* r is the result of on(events, data, cb) on the root R in the world w:
\* one record per event name, in order, with callback and delegation alike
OneRecordPerName(w, r, R, events, data, cb) ==
    LET new == Added(w, r, R)
    IN /\ Len(new) = Len(NamesOf(events))
       /\ \A i \in 1..Len(new) :
             /\ new[i].event # ""
             /\ i <= Len(NamesOf(events)) => new[i].event = NamesOf(events)[i]
             /\ new[i].callback = cb
             /\ HandleFn(new[i]).callback = cb
             /\ HandleFn(new[i]).data = data
             /\ HandleFn(new[i]).hasElements
             /\ HandleFn(new[i]).element = R

\* C15: for every events string that is a whitespace-separated list of k
\* event names (one space, several spaces or tabs between them), on()
\* creates exactly k records on the root, one per event name, none with an
\* empty event name, each with the same callback and delegation behaviour.
C15_Split ==
    \A events \in SplitInputs, data \in Selectors :
        /\ OneRecordPerName(W02, on02(W02, <<2>>, events, data, "cb1", undefined, "function"),
                            2, events, data, "cb1")
        /\ OneRecordPerName(W03, on03(W03, <<2>>, events, data, "cb1", undefined),
                            2, events, data, "cb1")

(***************************************************************************)
(* The store has no empty entries (checked in the states of SpecOff)       *)
(***************************************************************************)
NoEmptyEntry(w) == \A e \in DOMAIN w.cache : w.cache[e] # <<>>

\* the entry of every element that the call with result r left without a
\* record is deleted
EmptiedDeleted(r) == \A e \in Nodes : MapHas(r.cache, e) => Records(r, e) # {}

\* C16: in every state reached by bind, off and dispatch operations, in
\* both variants, every element with an entry in the store maps to a
\* non-empty collection of records; when off or a one-shot removal takes
\* away an element's last record, the element's entry is deleted.
C16_NoEmptyEntries ==
    /\ NoEmptyEntry(W02)
    /\ NoEmptyEntry(W03)
    /\ \A X \in Collections, eventType \in EventTypeFilters, func \in FuncFilters :
          /\ EmptiedDeleted(off02(W02, X, eventType, func))
          /\ EmptiedDeleted(off03(W03, X, eventType, func))
    /\ \A X \in Collections, event \in EventNames, beh \in Behaviours1 :
          /\ EmptiedDeleted(trigger(W02, X, event, "array", TRUE, beh))
          /\ EmptiedDeleted(trigger(W03, X, event, "array", TRUE, beh))

\* C16 witness: element 4 holds a single one-shot record and element 2 a
\* single permanent one; the dispatch of the one-shot record's event takes
\* the entry of 4 away, and off on both elements takes both entries away
C16_Witness ==
    /\ MapHas(handlerCache, 4) /\ Len(handlerCache[4]) = 1 /\ handlerCache[4][1].once
    /\ MapHas(handlerCache, 2) /\ Len(handlerCache[2]) = 1 /\ ~handlerCache[2][1].once
    /\ ~MapHas(trigger(W03, <<4>>, handlerCache[4][1].event, "array", TRUE, Quiet).cache, 4)
    /\ off03(W03, <<2, 4>>, undefined, undefined).cache = EmptyMap
    /\ off02(W02, <<2, 4>>, undefined, undefined).cache = EmptyMap

(***************************************************************************)
(* The lifecycle of a record under dispatch (checked in the states of      *)
(* Spec)                                                                   *)
(***************************************************************************)
\* the record h is a one-shot record: its once flag in 0.3, a wrapper of
\* eventOnce in 0.2
IsOnce(h) == IF "once" \in DOMAIN h THEN h.once ELSE HandleFn(h).fn = "eventOnce"

\* r is the result of dispatches in the world w: every record that left the
\* store is a one-shot record whose own wrapper ran, and every wrapper that
\* was deregistered ran itself
RemovedByOwnFiring(w, r) ==
    \A e \in Nodes :
        /\ \A h \in Records(w, e) \ Records(r, e) :
              /\ IsOnce(h)
              /\ \E run \in Runs(r) : run.f = HandleFn(h) /\ run.el = e
        /\ \A f \in Registered(w, e) \ Registered(r, e) :
              \E run \in Runs(r) : run.f = f /\ run.el = e

Lifecycle02(r, n) == RemovedByOwnFiring(W02, r)

Lifecycle03(r, n) == RemovedByOwnFiring(W03, r)

\* C17: under dispatch a record leaves the store (and its wrapper is
\* deregistered) only through the firing of that record itself when its
\* once flag is set; the dispatch of one record removes no record other
\* than itself, and a record with once = false is never removed by any
\* dispatch.
C17_Lifecycle ==
    /\ EveryDispatch(W02, Lifecycle02)
    /\ EveryDispatch(W03, Lifecycle03)

\* in the world w, E holds one record, a one-shot one, and nothing is bound
\* above E
SoleOnce(w, E) ==
    /\ MapHas(w.cache, E)
    /\ Len(w.cache[E]) = 1
    /\ IsOnce(w.cache[E][1])
    /\ \A a \in Ancestors(E) : ~MapHas(w.cache, a) /\ w.lst[a] = <<>>

\* the one-shot record of E fires with a throwing callback: the callback is
\* invoked once, the error is contained and logged, the record is gone from
\* the platform and from the store, and a second trigger invokes nothing
RemovedOnThrow(w) ==
    \A E \in Nodes :
        SoleOnce(w, E) =>
            \A args \in Args, hasConstructor \in BOOLEAN, beh2 \in Behaviours1 :
                LET h  == w.cache[E][1]
                    r1 == trigger(w, <<E>>, h.event, args, hasConstructor,
                                  ThrowOnly(h.callback))
                    r2 == trigger(r1, <<E>>, h.event, args, hasConstructor, beh2)
                IN /\ Len(r1.runs) = 1
                   /\ r1.runs[1].f = HandleFn(h)
                   /\ r1.runs[1].n = 1
                   /\ r1.runs[1].out = "throw"
                   /\ ~r1.runs[1].threw
                   /\ r1.runs[1].logs >= 1
                   /\ ~MapHas(r1.cache, E)
                   /\ r1.lst[E] = <<>>
                   /\ r2.runs = <<>>

\* C18: when a record with once = true fires and its callback throws, the
\* error is contained and, after the callback has been invoked, the record
\* is deregistered from the platform and removed from the store, so a second
\* trigger invokes nothing (both variants).
C18_OnceRemovedOnThrow ==
    /\ RemovedOnThrow(W02)
    /\ RemovedOnThrow(W03)

\* every record of focus or blur in the world w has capture = true and its
\* wrapper is registered in the capture phase only
FocusBlurCaptured(w) ==
    \A e \in Nodes :
        \A h \in Records(w, e) :
            IsFocusOrBlur(h.event) =>
                /\ ToBoolean(h.capture)
                /\ \A i \in 1..Len(w.lst[e]) :
                      w.lst[e][i].callback = HandleFn(h) => w.lst[e][i].capture

\* C19: in every reachable state, every stored record whose event name is
\* focus or blur has capture = true and was registered in the capture
\* phase, whichever binder created it (eventBind, eventOnce or on) and
\* whatever capture flag the caller requested.
C19_CaptureForcedByEveryBinder ==
    /\ FocusBlurCaptured(W02)
    /\ FocusBlurCaptured(W03)

(***************************************************************************)
(* trigger on a collection (checked in the states of SpecDirect)           *)
(***************************************************************************)
\* the collections whose elements are not ancestors of one another
FlatCollections == {<<>>, <<4>>, <<5>>, <<4, 5>>}

\* the position of the element e in the collection X
PosIn(X, e) == CHOOSE k \in 1..Len(X) : X[k] = e

\* the runs of the record h of the element e in r
RunsOf(r, e, h) == SelectSeq(r.runs, LAMBDA run : run.f = HandleFn(h) /\ run.el = e)

\* no capture-phase record of T on e has a callback that stops the event
\* (returns false or throws)
NotStoppedInCapture(w, e, T, beh) ==
    \A g \in Records(w, e) :
        g.event = T /\ ToBoolean(g.capture) => beh[g.callback] \notin {"false", "throw"}

\* r is the result of trigger(T) on the collection X in the world w with the
\* callbacks behaving as beh; Reaches(e, h) tells the records that the event
\* has to reach
TriggerReachesAll(w, r, X, T, beh, Reaches(_, _)) ==
    /\ X = <<>> => r.runs = <<>> /\ r.cache = w.cache /\ r.lst = w.lst
    /\ \A run \in Runs(r) : run.f.type = T
    /\ \A i, j \in 1..Len(r.runs) :
          (i < j /\ r.runs[i].el \in Elems(X) /\ r.runs[j].el \in Elems(X))
              => PosIn(X, r.runs[i].el) <= PosIn(X, r.runs[j].el)
    /\ \A e \in Elems(X) :
          \A h \in Records(w, e) :
              h.event = T =>
                  /\ Len(RunsOf(r, e, h)) <= 1
                  /\ Reaches(e, h) => Len(RunsOf(r, e, h)) = 1 /\ RunsOf(r, e, h)[1].n = 1

TriggerAsStated(w) ==
    \A X \in FlatCollections, T \in EventNames, args \in Args, hasConstructor \in {TRUE},
       beh \in Behaviours :
        LET Reaches(e, h) == TRUE
        IN TriggerReachesAll(w, trigger(w, X, T, args, hasConstructor, beh), X, T, beh, Reaches)

TriggerByPhase(w) ==
    \A X \in FlatCollections, T \in EventNames, args \in Args, hasConstructor \in {TRUE},
       beh \in Behaviours :
        LET Reaches(e, h) == ToBoolean(h.capture) \/ NotStoppedInCapture(w, e, T, beh)
        IN TriggerReachesAll(w, trigger(w, X, T, args, hasConstructor, beh), X, T, beh, Reaches)

BindCollections == {<<>>, <<4>>, <<4, 5>>, <<2, 4>>}

\* r is the result of eventBind(T, cb, useCapture) on the collection X in
\* the world w: one new record at the end of the entry of each element of
\* X, with a new wrapper of its own registered on that element last;
\* nothing else changes; the call returns the collection and reports nothing
OneRecordPerElement(w, r, X, T, cb, useCapture) ==
    /\ r.ret = "this" /\ r.logs = 0 /\ ~r.threw
    /\ X = <<>> => r.cache = w.cache /\ r.lst = w.lst
    /\ HandleCount(r.cache) = HandleCount(w.cache) + Len(X)
    /\ \A e \in Nodes \ Elems(X) :
          /\ MapHas(r.cache, e) <=> MapHas(w.cache, e)
          /\ MapHas(w.cache, e) => r.cache[e] = w.cache[e]
          /\ r.lst[e] = w.lst[e]
    /\ \A e \in Elems(X) :
          /\ Len(Added(w, r, e)) = 1
          /\ MapHas(w.cache, e) => SubSeq(r.cache[e], 1, Len(w.cache[e])) = w.cache[e]
          /\ LET h == Added(w, r, e)[1]
             IN /\ h.event = T
                /\ h.callback = cb
                /\ ToBoolean(h.capture) = (useCapture = "true")
                /\ HandleFn(h).element = e
                /\ HandleFn(h).callback = cb
                /\ HandleFn(h) \notin LiveFns(w)
                /\ r.lst[e] = Append(w.lst[e], [type |-> T, callback |-> HandleFn(h),
                                                capture |-> (useCapture = "true"),
                                                once |-> r.lst[e][Len(r.lst[e])].once])

\* C21: eventBind on a collection of N elements (N >= 0) creates exactly N
\* new records per call, one under each element of the collection, each
\* with its own wrapper registered on that element and holding the given
\* event name and callback; on an empty collection it creates nothing and
\* reports no error; in every case it returns the collection itself.
C21_OneRecordPerElement ==
    \A X \in BindCollections, T \in EventNames, cb \in Callbacks,
       useCapture \in {"true", "false"} :
        /\ OneRecordPerElement(W02, eventBind02(W02, X, T, cb, useCapture), X, T, cb, useCapture)
        /\ \A once \in {undefined, "true"} :
              OneRecordPerElement(W03, eventBind03(W03, X, T, cb, useCapture, once),
                                  X, T, cb, useCapture)

\* C21 witness: one eventBind call on the collection of 4 and 5 has given
\* each of them a record of the same event and callback with a wrapper of
\* its own
C21_Witness ==
    /\ MapHas(handlerCache, 4) /\ MapHas(handlerCache, 5)
    /\ Len(handlerCache[4]) = 1 /\ Len(handlerCache[5]) = 1
    /\ handlerCache[4][1].event = handlerCache[5][1].event
    /\ handlerCache[4][1].callback = handlerCache[5][1].callback
    /\ handlerCache[4][1].binder # handlerCache[5][1].binder
    /\ handlerCache[4][1].binder \in Registered(W03, 4)
    /\ handlerCache[5][1].binder \in Registered(W03, 5)
    /\ Len(eventCache[4]) = 1 /\ Len(eventCache[5]) = 1

\* the records i and j of the entry of e are bindings of the same event
\* name, callback and capture flag
SameBinding(w, e, i, j) ==
    /\ w.cache[e][i].event = w.cache[e][j].event
    /\ w.cache[e][i].callback = w.cache[e][j].callback
    /\ ToBoolean(w.cache[e][i].capture) = ToBoolean(w.cache[e][j].capture)

\* no two records of an element share event name, capture and wrapper; two
\* bindings of the same event name, callback and capture are two records
\* with two wrappers, both registered: a trigger invokes the callback
\* through each of them (when no capture-phase binding of a third callback
\* on the element stops the event before it reaches two bubble-phase
\* bindings), and one off(T, cb) removes both
NoSharedWrapper(w, off(_, _, _, _)) ==
    \A e \in DOMAIN w.cache :
        \A i, j \in 1..Len(w.cache[e]) :
            i # j =>
                LET hi == w.cache[e][i]
                    hj == w.cache[e][j]
                IN /\ <<hi.event, ToBoolean(hi.capture), HandleFn(hi)>>
                        # <<hj.event, ToBoolean(hj.capture), HandleFn(hj)>>
                   /\ SameBinding(w, e, i, j) =>
                        /\ HandleFn(hi) # HandleFn(hj)
                        /\ {HandleFn(hi), HandleFn(hj)} \subseteq Registered(w, e)
                        /\ \A args \in Args, beh \in Behaviours :
                              LET r == trigger(w, <<e>>, hi.event, args, TRUE, beh)
                              IN (ToBoolean(hi.capture)
                                        \/ NotStoppedInCapture(w, e, hi.event, beh)) =>
                                    /\ Len(RunsOf(r, e, hi)) = 1 /\ RunsOf(r, e, hi)[1].n = 1
                                    /\ Len(RunsOf(r, e, hj)) = 1 /\ RunsOf(r, e, hj)[1].n = 1
                        /\ LET c == off(w, <<e>>, hi.event, hi.callback)
                           IN /\ \A h \in Records(c, e) :
                                    ~(h.event = hi.event /\ h.callback = hi.callback)
                              /\ HandleFn(hi) \notin Registered(c, e)
                              /\ HandleFn(hj) \notin Registered(c, e)

\* C22: in every reachable state no two records of the same element share
\* the same (event name, capture, wrapper) triple; binding the same (event
\* name, callback, capture) twice on one element yields two distinct records
\* with two distinct wrappers, so the callback is invoked twice per trigger
\* and a single off(T, cb) removes both.
C22_NoDuplicateRegistration ==
    /\ NoSharedWrapper(W02, off02)
    /\ NoSharedWrapper(W03, off03)

\* C22 witness: element 4 holds two records of the same event name,
\* callback and capture flag
C22_Witness ==
    /\ MapHas(handlerCache, 4) /\ Len(handlerCache[4]) = 2 /\ SameBinding(W03, 4, 1, 2)
    /\ MapHas(eventCache, 4) /\ Len(eventCache[4]) = 2 /\ SameBinding(W02, 4, 1, 2)

(***************************************************************************)
(* Records are not changed in place (checked in the states of SpecForms)   *)
(***************************************************************************)
\* every record of the result r whose wrapper belongs to a record of the
\* world w on the same element is that record, field by field
Unmutated(w, r) ==
    \A e \in Nodes :
        \A h2 \in Records(r, e) :
            (\E h \in Records(w, e) : HandleFn(h) = HandleFn(h2)) => h2 \in Records(w, e)

Unmutated02(r, n) == Unmutated(W02, r)

Unmutated03(r, n) == Unmutated(W03, r)

\* C23: no operation (bind of another record, off, dispatch with any
\* callback outcome, one-shot removal) changes the event name, capture flag,
\* once flag, callback or wrapper of a record that already exists in the
\* store; operations only add whole records or remove whole records.
C23_RecordsImmutable ==
    /\ EveryDispatch(W02, Unmutated02)
    /\ EveryDispatch(W03, Unmutated03)
    /\ \A X \in Collections, eventType \in EventTypeFilters, func \in FuncFilters :
          /\ Unmutated(W02, off02(W02, X, eventType, func))
          /\ Unmutated(W03, off03(W03, X, eventType, func))
    /\ \A X \in Collections, T \in EventNames, cb \in Callbacks, useCapture \in Flags :
          /\ Unmutated(W02, eventBind02(W02, X, T, cb, useCapture))
          /\ Unmutated(W02, eventOnce02(W02, X, T, cb, useCapture))
          /\ Unmutated(W02, eventClick02(W02, X, cb, useCapture))
          /\ \A once \in {undefined, "true"} :
                Unmutated(W03, eventBind03(W03, X, T, cb, useCapture, once))
    /\ \A events \in OnEvents, data \in OnData, useCapture \in Flags :
          /\ Unmutated(W02, on02(W02, <<2>>, events, data, "cb1", useCapture, "function"))
          /\ Unmutated(W03, on03(W03, <<2>>, events, data, "cb1", useCapture))

\* C23 witness: element 4 holds a permanent record and a one-shot record;
\* the dispatch of the one-shot record's event removes the one-shot record
\* and leaves the permanent one as it was
C23_Witness ==
    /\ MapHas(handlerCache, 4) /\ Len(handlerCache[4]) = 2
    /\ ~handlerCache[4][1].once /\ handlerCache[4][2].once
    /\ trigger(W03, <<4>>, handlerCache[4][2].event, "array", TRUE, Quiet).cache
          = (4 :> <<handlerCache[4][1]>>)

(***************************************************************************)
(* The 0.2 eventOnce (checked in the states of Spec)                       *)
(***************************************************************************)
\* for every wrapper of eventOnce registered on an element E of the world
\* w: once an event of its type on E has run it, it is registered no more
\* and no later event of that type on E runs it; capture selects the
\* listeners looked at
OnceDestroyed(w, capture) ==
    \A E \in Nodes :
        \A i \in 1..Len(w.lst[E]) :
            LET l == w.lst[E][i]
            IN (l.callback.fn = "eventOnce" /\ l.capture \in capture) =>
                  \A beh1 \in Behaviours1, beh2 \in Behaviours1 :
                      LET r1 == trigger(w, <<E>>, l.type, "array", TRUE, beh1)
                          r2 == trigger(r1, <<E>>, l.type, "array", TRUE, beh2)
                      IN (\E run \in Runs(r1) : run.f = l.callback /\ run.el = E) =>
                            /\ l.callback \notin Registered(r1, E)
                            /\ \A run \in Runs(r2) : run.f # l.callback

\* C24: 0.2 variant: for a collection of N >= 1 elements bound by eventOnce
\* with either value of useCapture, after the event has fired once on an
\* element of the collection that element's listener is destroyed, so every
\* later event of that type on that element invokes the callback zero
\* times; for each element of the collection, not only for the last one.
C24_EventOnce02 == OnceDestroyed(W02, BOOLEAN)

(***************************************************************************)
(* SpecReentrant: permanent and one-shot direct bindings of cb1 on element *)
(* 4, permanent bindings of cb2 to click on 4 and on its ancestor 2; off;  *)
(* triggers on 4 in which the callbacks may call off or trigger            *)
(* themselves.                                                             *)
(***************************************************************************)
ReentrantBehaviours == [Callbacks -> {"undefined", "throw", "off", "trigger"}]

NextReentrant ==
    \/ \E type \in EventNames, once \in {undefined, "true"} :
            EventBind(<<4>>, type, "cb1", "false", once)
    \/ \E X \in {<<4>>, <<2>>} :
            EventBind(X, "click", "cb2", "false", undefined)
    \/ \E X \in {<<4>>, <<2, 4>>} :
            Off(X, undefined, undefined)
    \/ \E event \in EventNames, beh \in ReentrantBehaviours :
            Trigger(<<4>>, event, "array", TRUE, beh)

SpecReentrant == Init /\ [][NextReentrant]_vars

\* no run of a wrapper made by the 0.3 eventBind in a trigger on 4 with the
\* callbacks behaving as one of behs ends with an exception
CleanupNeverThrows(behs) ==
    \A event \in EventNames, beh \in behs :
        \A run \in Runs(trigger(W03, <<4>>, event, "array", TRUE, beh)) :
            run.f.fn = "createEventBind" => ~run.threw

\* C25: 0.3 variant: the cleanup of a wrapper created by eventBind never
\* throws: whenever the wrapper reaches its cleanup loop the store still has
\* an entry for its element, also when a callback calls off() on its own
\* element during its invocation and when two one-shot bindings of the same
\* callback to the same event on the same element fire in one dispatch.
C25_CleanupNeverThrows == CleanupNeverThrows(ReentrantBehaviours)

\* in the world w the record h is the only record of its callback on E, and
\* no record of that callback is stored for an element above E
OnlyRecordOf(w, E, h) ==
    /\ \A g \in Records(w, E) : g.callback = h.callback => g = h
    /\ Len(SelectSeq(w.cache[E], LAMBDA g : g = h)) = 1
    /\ \A a \in Ancestors(E) : \A g \in Records(w, a) : g.callback # h.callback

\* the behaviours in which the callback cb triggers its own event and the
\* other callbacks return or throw
TriggersItself(cb) ==
    { beh \in ReentrantBehaviours :
        beh[cb] = "trigger" /\ \A c \in Callbacks \ {cb} : beh[c] \in {"undefined", "throw"} }

\* the number of invocations of the callback cb in the runs
RECURSIVE Invocations(_, _)
Invocations(runs, cb) ==
    IF runs = <<>> THEN 0
    ELSE (IF Head(runs).cb = cb THEN Head(runs).n ELSE 0) + Invocations(Tail(runs), cb)

\* C26: 0.3 variant: when a callback bound with once = true triggers the
\* same event on the same element from inside its own invocation, the
\* nested dispatch does not invoke that callback again: the callback runs
\* exactly once in total, through its own wrapper, and the outer dispatch
\* ends with the record removed and without an exception.
C26_ReentrantOnce ==
    \A E \in DOMAIN handlerCache :
        \A h \in Records(W03, E) :
            (h.once /\ OnlyRecordOf(W03, E, h)) =>
                \A beh \in TriggersItself(h.callback) :
                    LET r == trigger(W03, <<E>>, h.event, "array", TRUE, beh)
                    IN /\ Invocations(r.runs, h.callback) = 1
                       /\ Len(RunsOf(r, E, h)) = 1
                       /\ RunsOf(r, E, h)[1].out = "trigger"
                       /\ ~RunsOf(r, E, h)[1].threw
                       /\ h \notin Records(r, E)
                       /\ h.binder \notin Registered(r, E)

\* C26 witness: element 4 holds a one-shot record of cb1 and a permanent
\* record of cb2 for the same event: the nested dispatch runs the wrapper of
\* cb2, the outer one those of cb1 and cb2
C26_Witness ==
    /\ MapHas(handlerCache, 4) /\ Len(handlerCache[4]) = 2
    /\ handlerCache[4][1].once /\ handlerCache[4][1].callback = "cb1"
    /\ ~handlerCache[4][2].once /\ handlerCache[4][2].callback = "cb2"
    /\ handlerCache[4][1].event = handlerCache[4][2].event
    /\ Len(trigger(W03, <<4>>, handlerCache[4][1].event, "array", TRUE,
                   [cb1 |-> "trigger", cb2 |-> "undefined"]).runs) = 3

(***************************************************************************)
(* The frame of a call on a collection (checked in the states of SpecOff)  *)
(***************************************************************************)
FrameCollections == {<<2>>, <<4>>, <<2, 4>>}

\* the call on the collection X with result r left store entry and
\* listeners of every element outside X as they are in the world w
FrameOutside(w, r, X) ==
    \A e \in Nodes \ Elems(X) :
        /\ MapHas(r.cache, e) <=> MapHas(w.cache, e)
        /\ MapHas(w.cache, e) => r.cache[e] = w.cache[e]
        /\ r.lst[e] = w.lst[e]

\* C27: eventBind, eventOnce, on and off called on a collection X add,
\* remove or deregister records only of elements that are members of X; the
\* store entry and the platform registrations of every element outside X
\* (ancestors and descendants of members of X included) are unchanged.
C27_FrameAcrossElements ==
    \A X \in FrameCollections :
        /\ \A T \in EventNames, cb \in Callbacks, useCapture \in {"true", "false"} :
              /\ FrameOutside(W02, eventBind02(W02, X, T, cb, useCapture), X)
              /\ FrameOutside(W03, eventBind03(W03, X, T, cb, useCapture, undefined), X)
              /\ FrameOutside(W02, eventOnce02(W02, X, T, cb, useCapture), X)
              /\ FrameOutside(W03, eventOnce03(W03, X, T, cb, useCapture), X)
        /\ \A events \in OnEvents, data \in OnData :
              /\ FrameOutside(W02, on02(W02, X, events, data, "cb1", undefined, "function"), X)
              /\ FrameOutside(W03, on03(W03, X, events, data, "cb1", undefined), X)
        /\ \A eventType \in EventTypeFilters, func \in FuncFilters :
              /\ FrameOutside(W02, off02(W02, X, eventType, func), X)
              /\ FrameOutside(W03, off03(W03, X, eventType, func), X)

\* C27 witness: elements 2 and 4 hold records; off on 4 takes the entry of
\* 4 away and leaves that of its ancestor 2, off on 2 the other way round
C27_Witness ==
    /\ MapHas(handlerCache, 2) /\ MapHas(handlerCache, 4)
    /\ MapHas(eventCache, 2) /\ MapHas(eventCache, 4)
    /\ off03(W03, <<4>>, undefined, undefined).cache = (2 :> handlerCache[2])
    /\ off03(W03, <<2>>, undefined, undefined).cache = (4 :> handlerCache[4])
    /\ off02(W02, <<4>>, undefined, undefined).cache = (2 :> eventCache[2])

\* the store and listener lists of a call's result, as a world
WorldOf(r) == [cache |-> r.cache, lst |-> r.lst]

\* the callback cb is not bound on the element e in the world w
NotBound(w, e, cb) == \A h \in Records(w, e) : h.callback # cb

\* bound is the result of eventBind(T, cb) on the element e of the world w:
\* off(T, cb) on e restores w, and the same off call once more, or on the
\* world w itself, changes nothing
RoundTrip(w, bound, e, T, cb, off(_, _, _, _)) ==
    /\ WorldOf(bound) # w
    /\ WorldOf(off(WorldOf(bound), <<e>>, T, cb)) = w
    /\ WorldOf(off(WorldOf(off(WorldOf(bound), <<e>>, T, cb)), <<e>>, T, cb)) = w
    /\ WorldOf(off(w, <<e>>, T, cb)) = w
    /\ ~MapHas(w.cache, e) =>
          \A eventType \in EventTypeFilters, func \in FuncFilters :
              WorldOf(off(w, <<e>>, eventType, func)) = w

\* C28: for an element whose store state is S, eventBind(T, cb) with a
\* callback cb not bound before, followed by off(T, cb), restores the store
\* (an absent entry when S was empty) and the platform registrations of that
\* element to exactly S; calling off with the same arguments a second time,
\* or calling off on an element that has no store entry, changes nothing.
C28_BindOffRoundTrip ==
    \A e \in {2, 4, 5}, T \in EventNames, cb \in Callbacks, useCapture \in {"true", "false"} :
        /\ NotBound(W02, e, cb) =>
              RoundTrip(W02, eventBind02(W02, <<e>>, T, cb, useCapture), e, T, cb, off02)
        /\ NotBound(W03, e, cb) =>
              RoundTrip(W03, eventBind03(W03, <<e>>, T, cb, useCapture, undefined),
                        e, T, cb, off03)

\* C28 witness: element 4 holds records of cb1 for both event names and none
\* of cb2 (a state S that is not empty, with records that off(T, cb2) must
\* keep), and element 5 has no entry
C28_Witness ==
    /\ MapHas(handlerCache, 4) /\ Len(handlerCache[4]) = 2
    /\ handlerCache[4][1].event # handlerCache[4][2].event
    /\ NotBound(W03, 4, "cb2") /\ NotBound(W02, 4, "cb2")
    /\ ~MapHas(handlerCache, 5) /\ ~MapHas(eventCache, 5)

(***************************************************************************)
(* SpecAgree: the operations that both variants have in common without     *)
(* one-shot bindings: eventBind with a boolean capture flag on element 4   *)
(* and on the collection of 2 and 4, eventClick, on with a selector and    *)
(* with a callback only, off with filters, trigger with and without        *)
(* arguments.                                                              *)
(***************************************************************************)
NextAgree ==
    \/ \E type \in EventNames, callback \in Callbacks, useCapture \in {"true", "false"} :
            EventBind(<<4>>, type, callback, useCapture, undefined)
    \/ \E callback \in Callbacks :
            EventBind(<<2, 4>>, "click", callback, "false", undefined)
    \/ EventClick(<<2>>, "cb2", "false")
    \/ \E data \in {".item", "cb2"}, useCapture \in {"false", undefined} :
            On(<<2>>, <<"click">>, data, "cb1", useCapture, "function")
    \/ \E X \in Collections, eventType \in EventTypeFilters, func \in FuncFilters :
            Off(X, eventType, func)
    \/ \E X \in Collections, event \in EventNames, args \in Args, beh \in Behaviours :
            Trigger(X, event, args, TRUE, beh)

SpecAgree == Init /\ [][NextAgree]_vars

\* what the claim compares of a record: event name, truth value of the
\* capture flag, callback
RecordView(h) == <<h.event, ToBoolean(h.capture), h.callback>>

\* the records of the element e in the store w, as the claim compares them
StoreView(w, e) ==
    IF MapHas(w.cache, e) THEN [i \in 1..Len(w.cache[e]) |-> RecordView(w.cache[e][i])]
    ELSE <<>>

\* the two stores hold the same records per element
SameStores == \A e \in Nodes : StoreView(W02, e) = StoreView(W03, e)

\* a trigger with arguments from args invokes every callback the same
\* number of times in both variants
SameInvocations(args) ==
    \A X \in Collections, event \in EventNames, a \in args, beh \in Behaviours :
        \A cb \in Callbacks :
            Invocations(trigger(W02, X, event, a, TRUE, beh).runs, cb)
                = Invocations(trigger(W03, X, event, a, TRUE, beh).runs, cb)

\* C29: for every sequence of eventBind (once not set, boolean capture),
\* eventClick, on, off and trigger operations applied to both variants, the
\* 0.2 store and the 0.3 store hold the same records per element (same event
\* name, capture truth value and callback), and every trigger invokes the
\* same callbacks the same number of times in both.
C29_VariantsAgree ==
    /\ SameStores
    /\ SameInvocations(Args)

(***************************************************************************)
(* The default action of triggered events (checked in the states of Spec)  *)
(***************************************************************************)
\* after every trigger whose event is created through one of the branches
\* (the CustomEvent constructor: TRUE, initCustomEvent: FALSE), in which a
\* wrapper has called preventDefault because its callback returned false or
\* threw, the event is in the default-prevented state
DefaultPrevented(w, branches) ==
    \A X \in Collections, event \in EventNames, args \in Args,
       hasConstructor \in branches, beh \in Behaviours1 :
        LET r == trigger(w, X, event, args, hasConstructor, beh)
        IN (\E run \in Runs(r) : run.out \in {"false", "throw"} /\ run.pd) => r.canceled

\* C30: for an event created by trigger through the CustomEvent constructor
\* branch, a handler that returns false or throws leaves the event in the
\* default-prevented state, the same as for an event created through the
\* initCustomEvent branch.
C30_TriggerCancelable ==
    /\ DefaultPrevented(W02, BOOLEAN)
    /\ DefaultPrevented(W03, BOOLEAN)
====
